---- MODULE Spec2Model ----
(***************************************************************************)
(* seo-flow: the competition scorer, the retry decorator, the Serper       *)
(* collector's collect(), KeywordAnalyzer.batch_analyze and the            *)
(* RateLimiter, modelled from the Python sources.                          *)
(*                                                                         *)
(* Four specifications share the variables; each one moves its own group   *)
(* and leaves the others at their idle value:                              *)
(*   SpecScore    scoring of one full SERP response (pure functions)       *)
(*   SpecRetry    utils.decorators.retry around a function / collect()     *)
(*   SpecBatch    KeywordAnalyzer.batch_analyze over a keyword list        *)
(*   SpecLimiter  threads calling RateLimiter.wait() / reset()             *)
(* Time is counted in ticks of 0.1 s.                                      *)
(***************************************************************************)
EXTENDS Integers, Sequences, FiniteSets, TLC

VARIABLES
    \* --- scoring ---
    serp,               \* the SerperFullResponse being scored
    now,                \* datetime.utcnow(), in ticks
    metrics,            \* the results of KeywordAnalyzer._calculate_competition, in order
    serperMetrics,      \* the results of collectors.serper.CompetitionMetrics(serp)
    apiMetrics,         \* the results of models.serper.SerperMetrics.from_api_response
    \* --- retry wrapper ---
    callee,             \* what the wrapper decorates: "func" or "collect"
    cfg,                \* the decorator's arguments
    api_key,            \* SerperCollector.api_key is set
    attempt,            \* loop variable of the wrapper
    delay,              \* the wrapper's delay (seconds)
    pending,            \* outcome of the invocation not yet handled
    last_exception,     \* the wrapper's last_exception
    sleeps,             \* time.sleep() arguments so far (seconds)
    invocations,        \* number of calls of the wrapped function
    failures,           \* exceptions the wrapped function raised, in order
    requests,           \* statuses the provider answered to requests.post
    outcome,            \* what the wrapper finally did
    \* --- batch ---
    keywords,           \* argument of batch_analyze
    idx,                \* next keyword to process
    results,            \* the dict built by batch_analyze, in insertion order
    analyzed,           \* per processed keyword: did analyze() return
    raised,             \* per processed keyword: what analyze() raised, if anything
    batchOutcome,       \* "running", "returned" or "raised"
    \* --- rate limiter ---
    clock,              \* time.time(), in ticks
    lock,               \* owner of RateLimiter._lock
    _last_request_time, \* RateLimiter._last_request_time
    tpc,                \* each thread's position
    current_time,       \* each thread's local current_time
    wake,               \* each thread's wake-up time while in time.sleep
    stamps,             \* values written to _last_request_time by wait()
    returns,            \* clock values at which wait() calls returned
    resets,             \* number of reset() calls completed
    calls,              \* number of wait() and reset() calls started
    caller,             \* per thread: what called wait() ("wait" or "request")
    stamped,            \* per thread: the timestamp its last wait() stored
    posts,              \* requests.post calls of _make_request: start time and
                        \* the timestamp of the wait() before it
    \* --- target matching in analyze ---
    target_url,         \* the target_url argument: given or not, and its netloc
    organic,            \* netloc of each organic result's link, in list order
    positions,          \* "position" of each organic result (NoPosition: no such key)
    found,              \* index in serp.organic of the result the loop broke at (0: none)
    target_position,    \* analyze's target_position (NoPosition: None)
    is_ranking,         \* analyze's is_ranking
    matched,            \* the matching loop has run
    \* --- opportunities of analyze ---
    opportunities,      \* the list _identify_opportunities returned
    identified,         \* _identify_opportunities has run
    \* --- OpportunityDetector.detect_from_gsc ---
    gsc_metrics,        \* the argument: a list of GSCMetric rows
    detected,           \* how detect_from_gsc ended, with the list it returned
    \* --- OpportunityDetector.prioritize ---
    opps,               \* the argument: a list of Opportunity
    max_results,        \* the argument max_results
    prioritized,        \* the list prioritize returned (kind "none": not run)
    \* --- utils.validators.validate_keywords ---
    keywords_arg,       \* the argument: a str or a list of str
    validated,          \* how validate_keywords ended, with the list it returned
    \* --- the batch loops of the analyzer and of the collectors ---
    batch_op,           \* which batch operation runs
    queries,            \* the argument, each item with the way its call will end
    cursor,             \* index of the item the loop is at
    out,                \* the dict "results" of the loop
    timeline,           \* the per-item calls and the time.sleep calls, in order
    finished,           \* "running", "returned" or "raised"
    \* --- SerperCollector._parse_results ---
    data,               \* data["organic"]: the provider's batch
    parsed,             \* the list _parse_results returned (kind "none": not run)
    \* --- the KeywordAnalysis built by analyze ---
    analysis            \* how analyze ended, with the KeywordAnalysis it returned

scoreVars == <<serp, now, metrics, serperMetrics, apiMetrics>>
retryVars == <<callee, cfg, api_key, attempt, delay, pending, last_exception,
               sleeps, invocations, failures, requests, outcome>>
batchVars == <<keywords, idx, results, analyzed, raised, batchOutcome>>
limiterVars == <<clock, lock, _last_request_time, tpc, current_time, wake,
                 stamps, returns, resets, calls>>
requestVars == <<caller, stamped, posts>>
matchVars == <<target_url, organic, positions, found, target_position, is_ranking,
               matched>>
oppVars == <<opportunities, identified>>
detectVars == <<gsc_metrics, detected>>
prioritizeVars == <<opps, max_results, prioritized>>
validateVars == <<keywords_arg, validated>>
loopVars == <<batch_op, queries, cursor, out, timeline, finished>>
parseVars == <<data, parsed>>
laterVars == <<validateVars, loopVars, parseVars, analysis>>
analysisVars == <<matchVars, oppVars, detectVars, prioritizeVars, laterVars>>
vars == <<scoreVars, retryVars, batchVars, limiterVars, requestVars, analysisVars>>

None == "None"

Min(a, b) == IF a <= b THEN a ELSE b

Max(a, b) == IF a >= b THEN a ELSE b

(***************************************************************************)
(* Bounds of the model.                                                    *)
(***************************************************************************)
MaxPlain == 10
MaxRelated == 6
MaxPaa == 6
MaxClock == 1
MaxAttempts == 3
MaxDelay == 2
MaxHint == 2
MaxKeywords == 3
NThreads == 2
MaxCalls == 3
Horizon == 6
MaxHost == 3
MaxPosition == 25
MaxRows == 2
MaxOpps == 2
MaxResults == 2

(***************************************************************************)
(* SerperFullResponse (collectors/serper.py).  An organic entry is the raw *)
(* dict of the provider: "position" may be missing, "sitelinks" may be     *)
(* missing, an empty list or a list of links.                              *)
(***************************************************************************)
Absent == "absent"

\* an organic entry without "position"
NoPosition == 0 - 1

Entry(p, s, l) == [position |-> p, sitelinks |-> s, link |-> l]

Domains == <<"a.com", "www.b.com">>

LinkOf(i) == Domains[(i % Len(Domains)) + 1]

\* n entries with position p (Rank: 1..n), sitelinks s and a link
Rank == 0 - 2

RECURSIVE Repeat(_, _, _)
Repeat(n, p, s) ==
    IF n = 0 THEN <<>>
    ELSE Append(Repeat(n - 1, p, s), Entry(IF p = Rank THEN n ELSE p, s, LinkOf(n)))

\* the organic lists the model enumerates: featured snippets (position 0),
\* entries with sitelinks, entries with an empty sitelinks list, and plain
\* ranked entries
OrganicOf(nFeat, nSite, emptySitelinks, nPlain) ==
    Repeat(nFeat, 0, Absent) \o Repeat(nSite, NoPosition, "links")
        \o Repeat(IF emptySitelinks THEN 1 ELSE 0, Rank, "empty")
        \o Repeat(nPlain, Rank, Absent)

Items(n) == [i \in 1..n |-> i]

KnowledgeGraphs == {None, "empty", "panel"}

SerperFullResponse(org, kg, nRelated, nPaa) ==
    [organic |-> org, knowledge_graph |-> kg,
     related_searches |-> Items(nRelated), people_also_ask |-> Items(nPaa)]

\* Python truthiness of the optional knowledgeGraph dict
Truthy(kg) == kg \notin {None, "empty"}

has_featured_snippet(s) ==
    \E i \in DOMAIN s.organic :
        (IF s.organic[i].position = NoPosition THEN 1 ELSE s.organic[i].position) = 0

has_sitelinks(s) ==
    \E i \in DOMAIN s.organic : s.organic[i].sitelinks = "links"

RECURSIVE Uniq(_)
Uniq(seq) ==
    IF seq = <<>> THEN <<>>
    ELSE LET front == Uniq(SubSeq(seq, 1, Len(seq) - 1))
             last == seq[Len(seq)]
         IN  IF \E i \in DOMAIN front : front[i] = last THEN front
             ELSE Append(front, last)

top_domains(s) ==
    Uniq([i \in 1..Min(Len(s.organic), 10) |-> s.organic[i].link])

(***************************************************************************)
(* The competition scorers.                                                *)
(***************************************************************************)
\* len(x or []): the lists of the model are never None
LenOrEmpty(list) == Len(list)

\* Factor 1 of KeywordAnalyzer._calculate_competition
OrganicPoints(n) == IF n >= 10 THEN 25 ELSE IF n >= 5 THEN 15 ELSE 5

\* Factors 3 and 4 without the cap of 15
ListPointsUncapped(count) == count * 3

\* Factors 3 and 4: min(count * 3, 15)
ListPoints(count) == Min(count * 3, 15)

\* the thresholds with > in place of >=
DifficultyOfStrict(competition_score) ==
    IF competition_score > 70 THEN "High"
    ELSE IF competition_score > 40 THEN "Medium"
    ELSE "Low"

\* the difficulty label of KeywordAnalyzer._calculate_competition
DifficultyOf(competition_score) ==
    IF competition_score >= 70 THEN "High"
    ELSE IF competition_score >= 40 THEN "Medium"
    ELSE "Low"

\* the six factors, summed in the order of the code; the last one added is
\* the featured snippet's
ScoreBeforeSnippet(s) ==
    OrganicPoints(Len(s.organic))
    + (IF Truthy(s.knowledge_graph) THEN 20 ELSE 0)
    + ListPoints(LenOrEmpty(s.related_searches))
    + ListPoints(LenOrEmpty(s.people_also_ask))
    + (IF has_sitelinks(s) THEN 15 ELSE 0)

\* CompetitionMetrics(...) as built by _calculate_competition from the final
\* score, with opportunity_score = 100 - min(forOpportunity, 100)
AnalyzerMetrics(s, t, score, forOpportunity) ==
    LET competition_score == Min(score, 100)
    IN  [competition_score |-> competition_score,
         difficulty |-> DifficultyOf(competition_score),
         opportunity_score |-> 100 - Min(forOpportunity, 100),
         total_serp_results |-> Len(s.organic),
         has_knowledge_graph |-> s.knowledge_graph # None,
         has_featured_snippet |-> has_featured_snippet(s),
         has_sitelinks |-> has_sitelinks(s),
         top_domains |-> top_domains(s),
         related_searches_count |-> LenOrEmpty(s.related_searches),
         paa_count |-> LenOrEmpty(s.people_also_ask),
         analyzed_at |-> t]

\* _calculate_competition with opportunity_score taken from the score as it
\* stood before the featured-snippet factor was added
_calculate_competition_stale(s, t) ==
    LET score == ScoreBeforeSnippet(s) + (IF has_featured_snippet(s) THEN 10 ELSE 0)
    IN  AnalyzerMetrics(s, t, score, ScoreBeforeSnippet(s))

\* _calculate_competition keeping a running total over the calls made so far
_calculate_competition_running(s, t) ==
    LET score == ScoreBeforeSnippet(s) + (IF has_featured_snippet(s) THEN 10 ELSE 0)
                 + Len(metrics)
    IN  AnalyzerMetrics(s, t, score, score)

\* KeywordAnalyzer._calculate_competition: builds the pydantic
\* CompetitionMetrics, whose analyzed_at defaults to datetime.utcnow() (t)
_calculate_competition(s, t) ==
    LET score == ScoreBeforeSnippet(s) + (IF has_featured_snippet(s) THEN 10 ELSE 0)
    IN  AnalyzerMetrics(s, t, score, score)

\* collectors.serper.CompetitionMetrics._compute_metrics
_compute_metrics(s) ==
    LET result_count == Len(s.organic)
        score == (IF result_count >= 10 THEN 25
                  ELSE IF result_count >= 5 THEN 15 ELSE 5)
                 + (IF Truthy(s.knowledge_graph) THEN 20 ELSE 0)
                 + Min(Len(s.related_searches) * 3, 15)
                 + Min(Len(s.people_also_ask) * 3, 15)
                 + (IF has_sitelinks(s) THEN 15 ELSE 0)
                 + (IF has_featured_snippet(s) THEN 10 ELSE 0)
        competition_score == Min(score, 100)
    IN  [competition_score |-> competition_score,
         opportunity_score |-> 100 - competition_score,
         difficulty |-> IF competition_score >= 70 THEN "High"
                        ELSE IF competition_score >= 40 THEN "Medium"
                        ELSE "Low",
         organic_count |-> result_count,
         has_knowledge_graph |-> s.knowledge_graph # None,
         related_searches_count |-> Len(s.related_searches),
         paa_count |-> Len(s.people_also_ask),
         top_domains |-> top_domains(s),
         has_featured_snippet |-> has_featured_snippet(s),
         has_sitelinks |-> has_sitelinks(s)]

\* SerperAPIResponse(**raw) validates: every organic entry has its required
\* "position" (SerperOrganic) and a knowledge graph has its required "title"
IsValidAPIResponse(s) ==
    /\ \A i \in DOMAIN s.organic : s.organic[i].position \in 0..100
    /\ s.knowledge_graph # "empty"

\* models.serper.SerperMetrics.from_api_response: "if len(response.organic)
\* >= 10: score += 25" has no other branch
from_api_response(s) ==
    LET score == (IF Len(s.organic) >= 10 THEN 25 ELSE 0)
                 + (IF s.knowledge_graph # None THEN 20 ELSE 0)
                 + Min(LenOrEmpty(s.related_searches) * 3, 15)
                 + Min(LenOrEmpty(s.people_also_ask) * 3, 15)
                 + (IF \E i \in DOMAIN s.organic : s.organic[i].sitelinks = "links"
                    THEN 15 ELSE 0)
                 + (IF \E i \in DOMAIN s.organic : s.organic[i].position = 0
                    THEN 10 ELSE 0)
        competition_score == Min(score, 100)
    IN  [competition_score |-> competition_score,
         difficulty |-> IF competition_score >= 70 THEN "High"
                        ELSE IF competition_score >= 40 THEN "Medium"
                        ELSE "Low",
         opportunity_score |-> 100 - competition_score,
         total_results |-> Len(s.organic),
         has_knowledge_graph |-> s.knowledge_graph # None,
         has_featured_snippet |-> \E i \in DOMAIN s.organic : s.organic[i].position = 0,
         has_sitelinks |-> \E i \in DOMAIN s.organic : s.organic[i].sitelinks = "links",
         related_searches_count |-> LenOrEmpty(s.related_searches),
         paa_count |-> LenOrEmpty(s.people_also_ask)]

(***************************************************************************)
(* Idle values of each group, used by the other specifications.            *)
(***************************************************************************)
IdleSerp == SerperFullResponse(<<>>, None, 0, 0)

ScoreIdle ==
    /\ serp = IdleSerp /\ now = 0
    /\ metrics = <<>> /\ serperMetrics = <<>> /\ apiMetrics = <<>>

(***************************************************************************)
(* SpecScore: one response, scored twice by the analyzer and once by the   *)
(* Serper metrics class, while the wall clock runs.                        *)
(***************************************************************************)
SerpInputs ==
    { SerperFullResponse(OrganicOf(nf, ns, e, np), kg, nr, nq) :
        nf \in 0..1, ns \in 0..1, e \in BOOLEAN,
        np \in 0..MaxPlain, kg \in KnowledgeGraphs,
        nr \in 0..MaxRelated, nq \in 0..MaxPaa }

ScoreInit ==
    /\ serp \in SerpInputs
    /\ now = 0
    /\ metrics = <<>> /\ serperMetrics = <<>> /\ apiMetrics = <<>>

\* the wall clock advances
ScoreTick ==
    /\ now < MaxClock
    /\ now' = now + 1
    /\ UNCHANGED <<serp, metrics, serperMetrics, apiMetrics>>

\* analyzer._calculate_competition(query, serp), first call
Score ==
    /\ metrics = <<>>
    /\ metrics' = <<_calculate_competition(serp, now)>>
    /\ UNCHANGED <<serp, now, serperMetrics, apiMetrics>>

\* analyzer._calculate_competition(query, serp), second call on the same serp
ScoreAgain ==
    /\ Len(metrics) = 1
    /\ metrics' = Append(metrics, _calculate_competition(serp, now))
    /\ UNCHANGED <<serp, now, serperMetrics, apiMetrics>>

\* CompetitionMetrics(serp) of collectors/serper.py
ComputeMetrics ==
    /\ Len(metrics) = 2 /\ serperMetrics = <<>>
    /\ serperMetrics' = <<_compute_metrics(serp)>>
    /\ UNCHANGED <<serp, now, metrics, apiMetrics>>

\* SerperMetrics.from_api_response(SerperAPIResponse(**raw)) on the same
\* payload, when the payload validates
FromApiResponse ==
    /\ Len(serperMetrics) = 1 /\ apiMetrics = <<>>
    /\ IsValidAPIResponse(serp)
    /\ apiMetrics' = <<from_api_response(serp)>>
    /\ UNCHANGED <<serp, now, metrics, serperMetrics>>

ScoreNext ==
    /\ (ScoreTick \/ Score \/ ScoreAgain \/ ComputeMetrics \/ FromApiResponse)
    /\ UNCHANGED <<retryVars, batchVars, limiterVars, requestVars, analysisVars>>

(***************************************************************************)
(* Exceptions (utils/exceptions.py, requests).  An exception object is     *)
(* [cls, retry_after, id]; id tells objects apart (the invocation that     *)
(* raised it).  Bases(cls) is the class with all its base classes.         *)
(***************************************************************************)
Bases(cls) ==
    CASE cls = "CollectorError" -> {"CollectorError", "SEOFlowError", "Exception"}
      [] cls = "RateLimitError" ->
            {"RateLimitError", "CollectorError", "SEOFlowError", "Exception"}
      [] cls = "AuthenticationError" ->
            {"AuthenticationError", "CollectorError", "SEOFlowError", "Exception"}
      [] cls = "Timeout" -> {"Timeout", "RequestException", "Exception"}
      [] cls = "ConnectionError" ->
            {"ConnectionError", "RequestException", "Exception"}
      [] cls = "ValueError" -> {"ValueError", "Exception"}
      [] cls = "ConfigurationError" -> {"ConfigurationError", "SEOFlowError", "Exception"}
      [] OTHER -> {cls, "Exception"}

\* isinstance(e, classes) / "except classes as e"
IsInstance(e, classes) == Bases(e.cls) \cap classes # {}

\* retry_after = None
NoHint == 0 - 1

NoException == [cls |-> None, retry_after |-> NoHint, id |-> 0]

Exc(cls, retry_after, id) == [cls |-> cls, retry_after |-> retry_after, id |-> id]

\* RateLimitError(message, retry_after)
RateLimitError(retry_after, id) == Exc("RateLimitError", retry_after, id)

\* how a call ended: it returned value, or raised exc
NoValue == [success |-> FALSE, json |-> 0, error |-> None, call |-> 0]

Ok(value) == [kind |-> "ok", value |-> value, exc |-> NoException]

Raise(e) == [kind |-> "raise", value |-> NoValue, exc |-> e]

NoResult == [kind |-> "none", value |-> NoValue, exc |-> NoException]

(***************************************************************************)
(* The provider's answer to one requests.post: an HTTP status (with the    *)
(* Retry-After header of a 429, possibly missing) or a transport failure.  *)
(***************************************************************************)
Answer(kind, status, header) ==
    [kind |-> kind, status |-> status, retry_after |-> header]

ProviderAnswers ==
    { Answer("response", st, NoHint) : st \in {200, 401, 403, 500} }
    \cup { Answer("response", 429, h) : h \in {NoHint} \cup 0..MaxHint }
    \cup { Answer(k, 0, NoHint) : k \in {"Timeout", "ConnectionError"} }

TicksPerSecond == 10

MinInterval == 5

\* RateLimiter.wait() of a caller that finds the lock free: the time at
\* which it returns (it sleeps min_interval - elapsed when elapsed is short)
WaitUncontended(clk, last) ==
    IF clk - last < MinInterval THEN clk + (MinInterval - (clk - last)) ELSE clk

\* SerperCollector._make_request after the request was answered
_make_request(a, id) ==
    IF a.kind # "response" THEN Raise(Exc(a.kind, NoHint, id))
    ELSE IF a.status = 429
        THEN Raise(RateLimitError(IF a.retry_after = NoHint THEN 60 ELSE a.retry_after, id))
    ELSE IF a.status \in {401, 403} THEN Raise(Exc("AuthenticationError", NoHint, id))
    ELSE IF a.status # 200 THEN Raise(Exc("CollectorError", NoHint, id))
    ELSE Ok([success |-> TRUE, json |-> id, error |-> None, call |-> id])

\* CollectorResponse.error_response / success_response; json names the
\* provider payload the data was parsed from (0: none), call the invocation
\* that built the response
ErrorResponse(error, id) == [success |-> FALSE, json |-> 0, error |-> error, call |-> id]

SuccessResponse(id) == [success |-> TRUE, json |-> id, error |-> None, call |-> id]

\* the body of SerperCollector.collect once _make_request has answered r
CollectBody(r, id) ==
    IF r.kind = "ok" THEN Ok(SuccessResponse(id))
    ELSE IF IsInstance(r.exc, {"RateLimitError", "AuthenticationError"}) THEN r
    ELSE IF IsInstance(r.exc, {"Timeout"}) THEN Ok(ErrorResponse("Request timeout", id))
    ELSE IF IsInstance(r.exc, {"RequestException"}) THEN Ok(ErrorResponse("Network error", id))
    ELSE Ok(ErrorResponse("Unexpected error", id))

(***************************************************************************)
(* utils.decorators.retry.  backoff_factor is a float; the model holds it  *)
(* in halves (2 is 1.0, 3 is 1.5, 4 is 2.0), so that                       *)
(* int(delay * backoff_factor) is (delay * halves) \div 2.                 *)
(***************************************************************************)
BackoffHalves == {2, 3, 4}

RetryConfig(m, d, b, ex) ==
    [max_attempts |-> m, delay_seconds |-> d, backoff |-> b, exceptions |-> ex]

\* @retry(max_attempts=3, delay_seconds=5, exceptions=(RateLimitError, CollectorError))
CollectRetry == RetryConfig(3, 5, 4, {"RateLimitError", "CollectorError"})

\* what a decorated plain function may do on one invocation
FuncOutcomes(id) ==
    {Ok(SuccessResponse(id))}
    \cup { Raise(Exc(c, NoHint, id)) :
              c \in {"CollectorError", "AuthenticationError", "ValueError"} }
    \cup { Raise(RateLimitError(h, id)) : h \in {NoHint} \cup 0..MaxHint }

\* "if attempt <= max_attempts"
HasAttemptsLeftInclusive(a, m) == a <= m

\* "if attempt < max_attempts"
HasAttemptsLeft(a, m) == a < m

\* "isinstance(e, RateLimitError) and e.retry_after": None and 0 are falsy
UsesRetryAfter(e) ==
    IsInstance(e, {"RateLimitError"}) /\ e.retry_after # NoHint /\ e.retry_after # 0

\* the delay slept after failure e
SleepDelay(e, d) == IF UsesRetryAfter(e) THEN e.retry_after ELSE d

\* delay = int(delay * backoff_factor)
NextDelay(d, halves) == (d * halves) \div 2

RetryIdle ==
    /\ callee = None /\ cfg = None /\ api_key = TRUE
    /\ attempt = 0 /\ delay = 0 /\ pending = NoResult /\ last_exception = NoException
    /\ sleeps = <<>> /\ invocations = 0 /\ failures = <<>> /\ requests = <<>>
    /\ outcome = NoResult

RetryInit ==
    /\ \/ /\ callee = "func"
          /\ cfg \in { RetryConfig(m, d, b, ex) :
                        m \in 1..MaxAttempts, d \in 1..MaxDelay, b \in BackoffHalves,
                        ex \in {{"Exception"}, {"RateLimitError", "CollectorError"}} }
          /\ api_key = TRUE
       \/ /\ callee = "collect"
          /\ cfg = CollectRetry
          /\ api_key \in BOOLEAN
    /\ attempt = 1
    /\ delay = cfg.delay_seconds
    /\ pending = NoResult /\ last_exception = NoException
    /\ sleeps = <<>> /\ invocations = 0 /\ failures = <<>> /\ requests = <<>>
    /\ outcome = NoResult

Running == outcome.kind = "none" /\ callee # None

\* "return func(*args, **kwargs)" for a plain function: it returns or raises
InvokeFunc ==
    /\ Running /\ callee = "func" /\ pending = NoResult
    /\ attempt <= cfg.max_attempts
    /\ \E r \in FuncOutcomes(invocations + 1) :
          /\ pending' = r
          /\ failures' = IF r.kind = "raise" THEN Append(failures, r.exc) ELSE failures
    /\ invocations' = invocations + 1
    /\ UNCHANGED <<callee, cfg, api_key, attempt, delay, last_exception, sleeps,
                   requests, outcome>>
    /\ UNCHANGED <<clock, _last_request_time>>

\* one run of SerperCollector.collect's body without an API key
InvokeCollectNoKey ==
    /\ Running /\ callee = "collect" /\ pending = NoResult /\ ~api_key
    /\ attempt <= cfg.max_attempts
    /\ pending' = Ok(ErrorResponse("Serper API key not configured", invocations + 1))
    /\ invocations' = invocations + 1
    /\ UNCHANGED <<callee, cfg, api_key, attempt, delay, last_exception, sleeps,
                   failures, requests, outcome>>
    /\ UNCHANGED <<clock, _last_request_time>>

\* one run of SerperCollector.collect's body: the limiter's wait(), the
\* request, and the handling of the provider's answer
InvokeCollect ==
    /\ Running /\ callee = "collect" /\ pending = NoResult /\ api_key
    /\ attempt <= cfg.max_attempts
    /\ \E a \in ProviderAnswers :
          LET r == CollectBody(_make_request(a, invocations + 1), invocations + 1)
          IN  /\ requests' = Append(requests, a)
              /\ pending' = r
              /\ failures' = IF r.kind = "raise" THEN Append(failures, r.exc)
                             ELSE failures
    /\ _last_request_time' = WaitUncontended(clock, _last_request_time)
    /\ clock' = WaitUncontended(clock, _last_request_time)
    /\ invocations' = invocations + 1
    /\ UNCHANGED <<callee, cfg, api_key, attempt, delay, last_exception, sleeps, outcome>>

\* the wrapped call returned: the wrapper returns its value
ReturnResult ==
    /\ Running /\ pending.kind = "ok"
    /\ outcome' = pending
    /\ pending' = NoResult
    /\ UNCHANGED <<callee, cfg, api_key, attempt, delay, last_exception, sleeps,
                   invocations, failures, requests>>
    /\ UNCHANGED <<clock, _last_request_time>>

\* an exception outside "exceptions" leaves the wrapper at once
Propagate ==
    /\ Running /\ pending.kind = "raise"
    /\ ~IsInstance(pending.exc, cfg.exceptions)
    /\ outcome' = Raise(pending.exc)
    /\ pending' = NoResult
    /\ UNCHANGED <<callee, cfg, api_key, attempt, delay, last_exception, sleeps,
                   invocations, failures, requests>>
    /\ UNCHANGED <<clock, _last_request_time>>

\* "except exceptions as e" with attempts left: sleep, grow the delay, loop
CatchRetry ==
    /\ Running /\ pending.kind = "raise"
    /\ IsInstance(pending.exc, cfg.exceptions)
    /\ HasAttemptsLeft(attempt, cfg.max_attempts)
    /\ last_exception' = pending.exc
    /\ sleeps' = Append(sleeps, SleepDelay(pending.exc, delay))
    /\ clock' = clock + SleepDelay(pending.exc, delay) * TicksPerSecond
    /\ delay' = NextDelay(SleepDelay(pending.exc, delay), cfg.backoff)
    /\ attempt' = attempt + 1
    /\ pending' = NoResult
    /\ UNCHANGED <<callee, cfg, api_key, invocations, failures, requests, outcome>>
    /\ UNCHANGED _last_request_time

\* "except exceptions as e" on the last attempt: the error is logged and
\* the loop goes on to its end
CatchLast ==
    /\ Running /\ pending.kind = "raise"
    /\ IsInstance(pending.exc, cfg.exceptions)
    /\ ~HasAttemptsLeft(attempt, cfg.max_attempts)
    /\ last_exception' = pending.exc
    /\ attempt' = attempt + 1
    /\ pending' = NoResult
    /\ UNCHANGED <<callee, cfg, api_key, delay, sleeps, invocations, failures,
                   requests, outcome>>
    /\ UNCHANGED <<clock, _last_request_time>>

\* the loop is over: "raise last_exception"
RaiseLast ==
    /\ Running /\ pending = NoResult /\ attempt > cfg.max_attempts
    /\ outcome' = Raise(last_exception)
    /\ UNCHANGED <<callee, cfg, api_key, attempt, delay, pending, last_exception,
                   sleeps, invocations, failures, requests>>
    /\ UNCHANGED <<clock, _last_request_time>>

RetryNext ==
    /\ \/ InvokeFunc \/ InvokeCollectNoKey \/ InvokeCollect
       \/ ReturnResult \/ Propagate \/ CatchRetry \/ CatchLast \/ RaiseLast
    /\ UNCHANGED <<scoreVars, batchVars, analysisVars>>
    /\ UNCHANGED <<lock, tpc, current_time, wake, stamps, returns, resets, calls>>
    /\ UNCHANGED requestVars

(***************************************************************************)
(* KeywordAnalyzer (analyzers/keyword_analyzer.py).  A keyword is held as  *)
(* the lengths of its leading whitespace, of its core (from the first to   *)
(* the last non-blank character) and of its trailing whitespace.           *)
(***************************************************************************)
Keyword(lead, core, trail) == [lead |-> lead, core |-> core, trail |-> trail]

\* len(keyword)
KLen(k) == k.lead + k.core + k.trail

\* "", " a", "ab", " ab ", a keyword of 200 characters, one of 201
KeywordPool ==
    { Keyword(0, 0, 0), Keyword(1, 1, 0), Keyword(0, 2, 0), Keyword(1, 2, 1),
      Keyword(0, 200, 0), Keyword(0, 201, 0) }

\* str.strip(); a blank string is all leading whitespace
Strip(k) == IF k.core = 0 THEN Keyword(0, 0, 0) ELSE Keyword(0, k.core, 0)

\* the length checks made on the keyword as given, the result stripped
_validate_keyword_unstripped(keyword, id) ==
    IF KLen(keyword) < 2 \/ KLen(keyword) > 200 THEN Raise(Exc("ValueError", NoHint, id))
    ELSE Ok(Strip(keyword))

_validate_keyword(keyword, id) ==
    IF KLen(keyword) = 0 THEN Raise(Exc("ValueError", NoHint, id))
    ELSE IF KLen(Strip(keyword)) < 2 THEN Raise(Exc("ValueError", NoHint, id))
    ELSE IF KLen(Strip(keyword)) > 200 THEN Raise(Exc("ValueError", NoHint, id))
    ELSE Ok(Strip(keyword))

\* the answers the provider gives in SpecBatch
BatchAnswers ==
    { Answer("response", st, NoHint) : st \in {200, 401, 429} }
    \cup {Answer("Timeout", 0, NoHint)}

\* the payload of a 200 answer in SpecBatch
BatchPayload == SerperFullResponse(OrganicOf(0, 1, FALSE, 2), "panel", 1, 1)

\* SerperCollector.collect_full once the provider has answered a (the answer
\* is not looked at without an API key)
collect_full(a, key, id) ==
    IF ~key THEN Raise(Exc("CollectorError", NoHint, id))
    ELSE LET r == _make_request(a, id)
         IN  IF r.kind = "raise" THEN r ELSE Ok(BatchPayload)

\* KeywordAnalyzer.analyze(keyword) without a target URL
analyze(keyword, a, key, t, id) ==
    LET v == _validate_keyword(keyword, id)
    IN  IF v.kind = "raise" THEN v
        ELSE LET r == collect_full(a, key, id)
             IN  IF r.kind = "raise" THEN r
                 ELSE Ok([keyword |-> v.value,
                          competition |-> _calculate_competition(r.value, t)])

\* analyze(keyword) sends a request
AnalyzeRequests(keyword, key) == _validate_keyword(keyword, 0).kind = "ok" /\ key

\* results[key] = value on a dict kept in insertion order
DictSet(d, key, value) ==
    IF \E i \in DOMAIN d : d[i].key = key
    THEN [i \in DOMAIN d |-> IF d[i].key = key THEN [key |-> key, value |-> value] ELSE d[i]]
    ELSE Append(d, [key |-> key, value |-> value])

Keys(d) == [i \in DOMAIN d |-> d[i].key]

\* "except SEOFlowError" in place of "except Exception"
BatchCatchesSEOFlowError(e) == IsInstance(e, {"SEOFlowError"})

\* "except Exception as e" in batch_analyze
BatchCatches(e) == IsInstance(e, {"Exception"})

RECURSIVE KeywordLists(_)
KeywordLists(n) ==
    IF n = 0 THEN {<<>>}
    ELSE KeywordLists(n - 1)
         \cup { Append(l, k) : l \in { x \in KeywordLists(n - 1) : Len(x) = n - 1 },
                               k \in KeywordPool }

BatchIdle ==
    /\ keywords = <<>> /\ idx = 0 /\ results = <<>> /\ analyzed = <<>>
    /\ raised = <<>>
    /\ batchOutcome = None

BatchInit ==
    /\ keywords \in KeywordLists(MaxKeywords)
    /\ idx = 1 /\ results = <<>> /\ analyzed = <<>> /\ raised = <<>>
    /\ batchOutcome = "running"
    /\ api_key \in BOOLEAN
    /\ requests = <<>>

\* one iteration of the loop of batch_analyze: analyze(keyword) and its
\* except clause
BatchStep ==
    /\ batchOutcome = "running" /\ idx <= Len(keywords)
    /\ \E a \in BatchAnswers :
          LET k == keywords[idx]
              sent == AnalyzeRequests(k, api_key)
              t == IF sent THEN WaitUncontended(clock, _last_request_time) ELSE clock
              r == analyze(k, a, api_key, now, idx)
          IN  /\ results' = IF r.kind = "ok" THEN DictSet(results, k, r.value) ELSE results
              /\ analyzed' = Append(analyzed, r.kind = "ok")
              /\ raised' = Append(raised, r.exc)
              /\ batchOutcome' = IF r.kind = "raise" /\ ~BatchCatches(r.exc)
                                 THEN "raised" ELSE batchOutcome
              /\ requests' = IF sent THEN Append(requests, a) ELSE requests
              /\ clock' = t
              /\ _last_request_time' = IF sent THEN t ELSE _last_request_time
    /\ idx' = idx + 1
    /\ UNCHANGED <<keywords, api_key>>

\* the loop is over: "return results"
BatchReturn ==
    /\ batchOutcome = "running" /\ idx > Len(keywords)
    /\ batchOutcome' = "returned"
    /\ UNCHANGED <<keywords, idx, results, analyzed, raised, api_key, requests,
                   clock, _last_request_time>>

BatchNext ==
    /\ (BatchStep \/ BatchReturn)
    /\ UNCHANGED analysisVars
    /\ UNCHANGED <<scoreVars, callee, cfg, attempt, delay, pending, last_exception,
                   sleeps, invocations, failures, outcome>>
    /\ UNCHANGED <<lock, tpc, current_time, wake, stamps, returns, resets, calls>>
    /\ UNCHANGED requestVars

(***************************************************************************)
(* RateLimiter (collectors/serper.py), called from several threads.        *)
(* time.time() is far above min_interval when the process starts, so the   *)
(* clock starts at StartTime while _last_request_time starts at 0.0.       *)
(***************************************************************************)
Threads == 1..NThreads

NoOwner == 0

\* no wait() of the thread has stored a timestamp yet
NoStamp == 0 - 1

StartTime == 2 * MinInterval

\* a sleep of the whole interval, whatever has elapsed
SleepTimeFull(elapsed) == MinInterval

\* sleep_time = self._min_interval - elapsed
SleepTime(elapsed) == MinInterval - elapsed

\* Lock.acquire() succeeds only on a free lock
CanAcquireUnlocked == TRUE

CanAcquire == lock = NoOwner

\* a with block that leaves the lock held
ReleaseNever(t) == lock

\* the end of "with self._lock": the lock is released
Release(t) == IF lock = t THEN NoOwner ELSE lock

\* the threads inside "with self._lock"
InCriticalSection == { t \in Threads : tpc[t] \in {"read", "sleeping", "stamp", "reset_write"} }

LimiterIdle ==
    /\ clock = StartTime /\ lock = NoOwner /\ _last_request_time = 0
    /\ tpc = [t \in Threads |-> "idle"]
    /\ current_time = [t \in Threads |-> 0]
    /\ wake = [t \in Threads |-> 0]
    /\ stamps = <<>> /\ returns = <<>> /\ resets = 0 /\ calls = 0
    /\ caller = [t \in Threads |-> "wait"]
    /\ stamped = [t \in Threads |-> NoStamp]
    /\ posts = <<>>

LimiterInit == LimiterIdle

\* time passes
Tick ==
    /\ clock < StartTime + Horizon
    /\ clock' = clock + 1
    /\ UNCHANGED <<lock, _last_request_time, tpc, current_time, wake, stamps,
                   returns, resets, calls>>
    /\ UNCHANGED requestVars

\* a thread calls wait()
CallWait(t) ==
    /\ tpc[t] = "idle" /\ calls < MaxCalls
    /\ tpc' = [tpc EXCEPT ![t] = "acquire"]
    /\ calls' = calls + 1
    /\ caller' = [caller EXCEPT ![t] = "wait"]
    /\ UNCHANGED <<clock, lock, _last_request_time, current_time, wake, stamps,
                   returns, resets, stamped, posts>>

\* "with self._lock:" in wait()
Acquire(t) ==
    /\ tpc[t] = "acquire" /\ CanAcquire
    /\ lock' = t
    /\ tpc' = [tpc EXCEPT ![t] = "read"]
    /\ UNCHANGED <<clock, _last_request_time, current_time, wake, stamps, returns,
                   resets, calls>>
    /\ UNCHANGED requestVars

\* current_time = time.time(); elapsed = ...; the thread goes to sleep when
\* elapsed < min_interval (a sleep that starts late is a sleep that ends
\* late); wake[t] = 0 tells that this call does not sleep
ReadTime(t) ==
    /\ tpc[t] = "read"
    /\ current_time' = [current_time EXCEPT ![t] = clock]
    /\ IF clock - _last_request_time < MinInterval
       THEN /\ wake' = [wake EXCEPT ![t] = clock + SleepTime(clock - _last_request_time)]
            /\ tpc' = [tpc EXCEPT ![t] = "sleeping"]
       ELSE /\ wake' = [wake EXCEPT ![t] = 0]
            /\ tpc' = [tpc EXCEPT ![t] = "stamp"]
    /\ UNCHANGED <<clock, lock, _last_request_time, stamps, returns, resets, calls>>
    /\ UNCHANGED requestVars

\* time.sleep(sleep_time) returns, not before sleep_time has passed
WakeUp(t) ==
    /\ tpc[t] = "sleeping" /\ clock >= wake[t]
    /\ tpc' = [tpc EXCEPT ![t] = "stamp"]
    /\ UNCHANGED <<clock, lock, _last_request_time, current_time, wake, stamps,
                   returns, resets, calls>>
    /\ UNCHANGED requestVars

\* self._last_request_time = time.time(), and the with block releases the lock
Stamp(t) ==
    /\ tpc[t] = "stamp"
    /\ _last_request_time' = clock
    /\ stamps' = Append(stamps, clock)
    /\ lock' = Release(t)
    /\ tpc' = [tpc EXCEPT ![t] = "exit"]
    /\ stamped' = [stamped EXCEPT ![t] = clock]
    /\ UNCHANGED <<clock, current_time, wake, returns, resets, calls, caller, posts>>

\* wait() returns to its caller
ReturnWait(t) ==
    /\ tpc[t] = "exit"
    /\ returns' = Append(returns, clock)
    /\ tpc' = [tpc EXCEPT ![t] = IF caller[t] = "request" THEN "post" ELSE "idle"]
    /\ UNCHANGED <<clock, lock, _last_request_time, current_time, wake, stamps,
                   resets, calls, requestVars>>

\* a thread calls reset()
CallReset(t) ==
    /\ tpc[t] = "idle" /\ calls < MaxCalls
    /\ tpc' = [tpc EXCEPT ![t] = "reset_acquire"]
    /\ calls' = calls + 1
    /\ UNCHANGED <<clock, lock, _last_request_time, current_time, wake, stamps,
                   returns, resets>>
    /\ UNCHANGED requestVars

\* "with self._lock:" in reset()
ResetAcquire(t) ==
    /\ tpc[t] = "reset_acquire" /\ CanAcquire
    /\ lock' = t
    /\ tpc' = [tpc EXCEPT ![t] = "reset_write"]
    /\ UNCHANGED <<clock, _last_request_time, current_time, wake, stamps, returns,
                   resets, calls>>
    /\ UNCHANGED requestVars

\* self._last_request_time = 0.0, the lock is released and reset() returns
ResetWrite(t) ==
    /\ tpc[t] = "reset_write"
    /\ _last_request_time' = 0
    /\ lock' = Release(t)
    /\ resets' = resets + 1
    /\ tpc' = [tpc EXCEPT ![t] = "idle"]
    /\ UNCHANGED <<clock, current_time, wake, stamps, returns, calls>>
    /\ UNCHANGED requestVars

LimiterNext ==
    /\ \/ Tick
       \/ \E t \in Threads :
            \/ CallWait(t) \/ Acquire(t) \/ ReadTime(t) \/ WakeUp(t) \/ Stamp(t)
            \/ ReturnWait(t) \/ CallReset(t) \/ ResetAcquire(t) \/ ResetWrite(t)
    /\ UNCHANGED <<scoreVars, retryVars, batchVars, analysisVars>>

(***************************************************************************)
(* The limiter under fair scheduling.  Time does not stop while a thread   *)
(* sleeps, and a thread that can take a step is not held back for ever;    *)
(* whether a thread calls wait() or reset() at all is left open.           *)
(***************************************************************************)
MaxFairCalls == 3

FairHorizon == 1

\* time passes, up to the horizon
FairTick == clock < StartTime + FairHorizon /\ Tick

\* time passes beyond the horizon for as long as a sleep has not ended
TickWhileSleeping ==
    /\ clock >= StartTime + FairHorizon
    /\ \E t \in Threads : tpc[t] = "sleeping" /\ clock < wake[t]
    /\ clock' = clock + 1
    /\ UNCHANGED <<lock, _last_request_time, tpc, current_time, wake, stamps,
                   returns, resets, calls>>
    /\ UNCHANGED requestVars

TimePasses ==
    /\ (FairTick \/ TickWhileSleeping)
    /\ UNCHANGED <<scoreVars, retryVars, batchVars, analysisVars>>

\* the steps of thread t inside a call of wait() or reset()
ThreadStep(t) ==
    /\ \/ Acquire(t) \/ ReadTime(t) \/ WakeUp(t) \/ Stamp(t) \/ ReturnWait(t)
       \/ ResetAcquire(t) \/ ResetWrite(t)
    /\ UNCHANGED <<scoreVars, retryVars, batchVars, analysisVars>>

\* a thread calls wait() or reset(), MaxFairCalls calls in all
FairCallWait(t) == calls < MaxFairCalls /\ CallWait(t)

FairCallReset(t) == calls < MaxFairCalls /\ CallReset(t)

FairLimiterNext ==
    /\ \/ FairTick
       \/ TickWhileSleeping
       \/ \E t \in Threads :
            \/ FairCallWait(t) \/ Acquire(t) \/ ReadTime(t) \/ WakeUp(t) \/ Stamp(t)
            \/ ReturnWait(t) \/ FairCallReset(t) \/ ResetAcquire(t) \/ ResetWrite(t)
    /\ UNCHANGED <<scoreVars, retryVars, batchVars, analysisVars>>

(***************************************************************************)
(* SerperCollector._make_request called from several threads (any          *)
(* collector instance: _serper_rate_limiter is a module global): wait()    *)
(* on the limiter, then requests.post.  Nothing in the repository calls    *)
(* reset().                                                                *)
(***************************************************************************)
\* the request path skips the limiter
RequestEntryNoWait == "post"

\* "_serper_rate_limiter.wait()" comes first
RequestEntry == "acquire"

\* a thread calls _make_request, first attempt or retry
CallMakeRequest(t) ==
    /\ tpc[t] = "idle" /\ calls < MaxCalls
    /\ tpc' = [tpc EXCEPT ![t] = RequestEntry]
    /\ calls' = calls + 1
    /\ caller' = [caller EXCEPT ![t] = "request"]
    /\ stamped' = [stamped EXCEPT ![t] = NoStamp]
    /\ UNCHANGED <<clock, lock, _last_request_time, current_time, wake, stamps,
                   returns, resets, posts>>

\* requests.post(...) starts
Post(t) ==
    /\ tpc[t] = "post"
    /\ posts' = Append(posts, [at |-> clock, stamp |-> stamped[t]])
    /\ tpc' = [tpc EXCEPT ![t] = "idle"]
    /\ UNCHANGED <<clock, lock, _last_request_time, current_time, wake, stamps,
                   returns, resets, calls, caller, stamped>>

RequestsNext ==
    /\ \/ Tick
       \/ \E t \in Threads :
            \/ CallMakeRequest(t) \/ Acquire(t) \/ ReadTime(t) \/ WakeUp(t)
            \/ Stamp(t) \/ ReturnWait(t) \/ Post(t)
    /\ UNCHANGED <<scoreVars, retryVars, batchVars, analysisVars>>

(***************************************************************************)
(* The search for the target in KeywordAnalyzer.analyze (and, with the     *)
(* same code, SerperCollector.analyze_keyword).  A host name (the netloc   *)
(* of a URL) is a sequence over Alphabet: single characters and the        *)
(* four-character string "www." held as one element.  No other element     *)
(* holds a "w" or a ".", so "www." occurs in a host only as that element.  *)
(***************************************************************************)
Alphabet == {"www.", "a", "A", "b"}

RECURSIVE Hosts(_)
Hosts(n) ==
    IF n = 0 THEN {<<>>}
    ELSE Hosts(n - 1)
         \cup { Append(h, c) : h \in { x \in Hosts(n - 1) : Len(x) = n - 1 }, c \in Alphabet }

\* str.lower()
lower(h) == [i \in DOMAIN h |-> IF h[i] = "A" THEN "a" ELSE h[i]]

IsWww(c) == c = "www."

\* str.replace("www.", ""): every occurrence goes
replace_www(h) == SelectSeq(h, LAMBDA c : ~IsWww(c))

\* "a in b" on strings
IsSubstring(a, b) ==
    \E i \in 0..(Len(b) - Len(a)) : SubSeq(b, i + 1, i + Len(a)) = a

\* urlparse(url).netloc.lower().replace("www.", "")
DomainOf(netloc) == replace_www(lower(netloc))

\* "if target_domain in domain"
Matches(target_domain, domain) == IsSubstring(target_domain, domain)

\* the results the loop "for result in serp.organic" stops at
MatchingResults(t, org) == { i \in DOMAIN org : Matches(DomainOf(t), DomainOf(org[i])) }

\* the argument: None, or a URL of which only the netloc matters
NoTarget == [given |-> FALSE, netloc |-> <<>>]

Target(netloc) == [given |-> TRUE, netloc |-> netloc]

\* the hosts of the results after the first
OtherResults == {<<"a">>, <<"b", "a">>}

MatchIdle ==
    /\ target_url = NoTarget /\ organic = <<>> /\ positions = <<>> /\ found = 0
    /\ target_position = NoPosition /\ is_ranking = FALSE /\ matched = FALSE

OppIdle == opportunities = <<>> /\ identified = FALSE

\* detect_from_gsc has not run, returned a list, or raised
NotDetected == [kind |-> "none", list |-> <<>>]

Returned(list) == [kind |-> "ok", list |-> list]

Failed == [kind |-> "raise", list |-> <<>>]

DetectIdle == gsc_metrics = <<>> /\ detected = NotDetected

\* no call of validate_keywords
NoArgument == [kind |-> "none", text |-> <<>>, items |-> <<>>]

PrioritizeIdle == opps = <<>> /\ max_results = 0 /\ prioritized = NotDetected

NotValidated == [kind |-> "none", list |-> <<>>, exc |-> None]

ValidateIdle == keywords_arg = NoArgument /\ validated = NotValidated

LoopIdle ==
    /\ batch_op = None /\ queries = <<>> /\ cursor = 0 /\ out = <<>>
    /\ timeline = <<>> /\ finished = None

ParseIdle == data = <<>> /\ parsed = NotDetected

\* analyze has not ended
NotAnalyzed ==
    [kind |-> "none", target_position |-> NoPosition, is_ranking |-> FALSE,
     opportunities |-> <<>>]

AnalyzeIdle == analysis = NotAnalyzed

LaterIdle == ValidateIdle /\ LoopIdle /\ ParseIdle /\ AnalyzeIdle

AnalysisIdle == MatchIdle /\ OppIdle /\ DetectIdle /\ PrioritizeIdle /\ LaterIdle

\* the "position" keys of a list of n results: the provider's ranks in list
\* order, out of list order, or with the key missing on the first result
PositionLists(n) ==
    IF n = 0 THEN {<<>>}
    ELSE IF n = 1 THEN {<<1>>, <<NoPosition>>}
    ELSE {<<1, 2>>, <<2, 1>>, <<NoPosition, 2>>}

MatchInit ==
    /\ target_url \in {NoTarget} \cup { Target(h) : h \in Hosts(MaxHost) }
    /\ organic \in {<<>>} \cup { <<h>> : h \in Hosts(MaxHost) }
                   \cup { <<h, o>> : h \in Hosts(MaxHost), o \in OtherResults }
    /\ positions \in PositionLists(Len(organic))
    /\ found = 0
    /\ target_position = NoPosition /\ is_ranking = FALSE /\ matched = FALSE

\* "if target_url:" is false: None (an empty string is the same)
SkipMatch ==
    /\ ~matched /\ ~target_url.given
    /\ matched' = TRUE
    /\ UNCHANGED <<target_url, organic, positions, found, target_position, is_ranking>>

\* the first of the results hits, in the order of the list
FirstInList(hits) == CHOOSE i \in hits : \A j \in hits : i <= j

\* the loop over serp.organic, in the order of the list, which breaks at the
\* first match with target_position = result.get("position")
FindTarget ==
    /\ ~matched /\ target_url.given
    /\ LET hits == MatchingResults(target_url.netloc, organic)
       IN  IF hits = {}
           THEN UNCHANGED <<found, target_position, is_ranking>>
           ELSE /\ found' = FirstInList(hits)
                /\ target_position' = positions[FirstInList(hits)]
                /\ is_ranking' = TRUE
    /\ matched' = TRUE
    /\ UNCHANGED <<target_url, organic, positions>>

MatchNext ==
    /\ (SkipMatch \/ FindTarget)
    /\ UNCHANGED <<scoreVars, retryVars, batchVars, limiterVars, requestVars>>
    /\ UNCHANGED <<oppVars, detectVars, prioritizeVars, laterVars>>

(***************************************************************************)
(* KeywordAnalyzer._identify_opportunities, called by analyze with the     *)
(* metrics of _calculate_competition and the position found.               *)
(***************************************************************************)
Opportunity(type, priority) == [type |-> type, priority |-> priority]

\* "target_position < 20" in place of "<= 20"
IsTop20Strict(p) == p < 20

\* "if target_position <= 20"
IsTop20(p) == p <= 20

\* models.analysis.CompetitionMetrics.is_low_competition
is_low_competition(m) == m.difficulty = "Low"

\* the if/elif chain on target_position
PositionalOpportunity(p) ==
    IF p = NoPosition THEN Opportunity("not_ranking", "medium")
    ELSE IF p > 10
        THEN Opportunity("position_improvement", IF IsTop20(p) THEN "high" ELSE "medium")
    ELSE IF p <= 3 THEN Opportunity("maintain", "low")
    ELSE Opportunity("position_4_10", "high")

_identify_opportunities(competition, p, s) ==
    <<PositionalOpportunity(p)>>
    \o (IF is_low_competition(competition) THEN <<Opportunity("quick_win", "high")>>
        ELSE <<>>)
    \o (IF Len(s.related_searches) > 0 /\ Len(s.related_searches) > 3
        THEN <<Opportunity("keyword_expansion", "medium")>> ELSE <<>>)

\* the responses analyzed in SpecOpp
OppSerps ==
    { SerperFullResponse(OrganicOf(nf, 0, FALSE, np), kg, nr, 0) :
        nf \in 0..1, np \in {0, MaxPlain}, kg \in {None, "panel"}, nr \in 0..MaxRelated }

OppInit ==
    /\ serp \in OppSerps /\ now = 0 /\ metrics = <<>> /\ serperMetrics = <<>>
    /\ apiMetrics = <<>>
    /\ target_url = NoTarget /\ organic = <<>> /\ positions = <<>> /\ found = 0
    /\ is_ranking = FALSE /\ matched = TRUE
    /\ target_position \in {NoPosition} \cup 1..MaxPosition
    /\ OppIdle

\* competition = self._calculate_competition(keyword, serp), then
\* self._identify_opportunities(...)
Identify ==
    /\ ~identified
    /\ metrics' = <<_calculate_competition(serp, now)>>
    /\ opportunities' = _identify_opportunities(_calculate_competition(serp, now),
                                                target_position, serp)
    /\ identified' = TRUE
    /\ UNCHANGED <<serp, now, serperMetrics, apiMetrics, matchVars>>

OppNext ==
    /\ Identify
    /\ UNCHANGED <<retryVars, batchVars, limiterVars, requestVars, detectVars>>
    /\ UNCHANGED <<prioritizeVars, laterVars>>

(***************************************************************************)
(* OpportunityDetector.detect_from_gsc (analyzers/opportunity_detector.py).*)
(* A GSCMetric row holds its float fields as integers: position in tenths  *)
(* (position10), ctr in thousandths (ctr1000); an Opportunity holds its    *)
(* confidence in hundredths.  query is the row's index in the input.       *)
(***************************************************************************)
GSCMetric(position10, ctr1000, impressions, clicks) ==
    [position10 |-> position10, ctr1000 |-> ctr1000,
     impressions |-> impressions, clicks |-> clicks]

\* positions 3.5, 4.0, 10.0, 10.5 and 101.0; ctr 0.019 and 0.020;
\* impressions and clicks around the thresholds
GSCRows ==
    { GSCMetric(p, c, ic[1], ic[2]) :
        p \in {35, 40, 100, 105, 1010}, c \in {19, 20},
        ic \in {<<99, 0>>, <<100, 0>>, <<1000, 9>>, <<1000, 10>>, <<2000, 19>>} }

RECURSIVE RowLists(_)
RowLists(n) ==
    IF n = 0 THEN {<<>>}
    ELSE RowLists(n - 1)
         \cup { Append(l, r) : l \in { x \in RowLists(n - 1) : Len(x) = n - 1 },
                               r \in GSCRows }

\* ctr < 0.02 and position <= 10 and impressions >= 100
_is_low_ctr(metric) ==
    metric.ctr1000 < 20 /\ metric.position10 <= 100 /\ metric.impressions >= 100

\* 4 <= position <= 10
_is_position_4_10(metric) == 40 <= metric.position10 /\ metric.position10 <= 100

\* impressions >= 1000 and clicks < impressions * 0.01
_is_high_impressions_low_clicks(metric) ==
    metric.impressions >= 1000 /\ metric.clicks * 100 < metric.impressions

\* Opportunity(...) with current_position=int(metric.position)
DetectedOpportunity(q, metric, type, priority, confidence) ==
    [query |-> q, opportunity_type |-> type, priority |-> priority,
     current_position |-> metric.position10 \div 10,
     current_ctr |-> metric.ctr1000, current_clicks |-> metric.clicks,
     current_impressions |-> metric.impressions, confidence |-> confidence]

\* the model's validation of Opportunity: current_position has ge=0, le=100
IsValidOpportunity(o) == 0 <= o.current_position /\ o.current_position <= 100

\* the opportunities the loop body appends for one row, in order
RowOpportunities(q, metric) ==
    (IF _is_low_ctr(metric)
     THEN <<DetectedOpportunity(q, metric, "low_ctr", "high", 85)>> ELSE <<>>)
    \o (IF _is_position_4_10(metric)
        THEN <<DetectedOpportunity(q, metric, "position_4_10", "high", 80)>> ELSE <<>>)
    \o (IF _is_high_impressions_low_clicks(metric)
        THEN <<DetectedOpportunity(q, metric, "high_impressions", "medium", 75)>>
        ELSE <<>>)

\* the list after the loop over the first n rows
RECURSIVE Collected(_, _)
Collected(rows, n) ==
    IF n = 0 THEN <<>> ELSE Collected(rows, n - 1) \o RowOpportunities(n, rows[n])

\* the key with the impressions alone
SortsBeforeByImpressions(a, b) == a.current_impressions > b.current_impressions

\* key(a) < key(b) for key = (priority != HIGH, -(current_impressions or 0))
SortsBefore(a, b) ==
    \/ a.priority = "high" /\ b.priority # "high"
    \/ /\ (a.priority = "high") = (b.priority = "high")
       /\ a.current_impressions > b.current_impressions

\* o put into a sorted list after every element that does not sort after it
InsertStable(list, o) ==
    LET after == { i \in DOMAIN list : SortsBefore(o, list[i]) }
        k == IF after = {} THEN Len(list) + 1
             ELSE CHOOSE i \in after : \A j \in after : i <= j
    IN  SubSeq(list, 1, k - 1) \o <<o>> \o SubSeq(list, k, Len(list))

\* list.sort(key=...): a stable sort
RECURSIVE SortOpportunities(_)
SortOpportunities(list) ==
    IF list = <<>> THEN <<>>
    ELSE InsertStable(SortOpportunities(SubSeq(list, 1, Len(list) - 1)), list[Len(list)])

detect_from_gsc(rows) ==
    LET all == Collected(rows, Len(rows))
    IN  IF \E i \in DOMAIN all : ~IsValidOpportunity(all[i]) THEN Failed
        ELSE Returned(SortOpportunities(all))

DetectInit ==
    /\ gsc_metrics \in RowLists(MaxRows)
    /\ detected = NotDetected

Detect ==
    /\ detected = NotDetected
    /\ detected' = detect_from_gsc(gsc_metrics)
    /\ UNCHANGED gsc_metrics

DetectNext ==
    /\ Detect
    /\ UNCHANGED <<scoreVars, retryVars, batchVars, limiterVars, requestVars>>
    /\ UNCHANGED <<matchVars, oppVars, prioritizeVars, laterVars>>

(***************************************************************************)
(* OpportunityDetector.prioritize.  Scores are held in hundredths (the     *)
(* code's score times 100), confidences in hundredths; id is the           *)
(* opportunity's index in the input list.                                  *)
(***************************************************************************)
ScoredOpportunity(id, priority, impressions, position, confidence) ==
    [id |-> id, priority |-> priority, current_impressions |-> impressions,
     current_position |-> position, confidence |-> confidence]

RECURSIVE OpportunityLists(_)
OpportunityLists(n) ==
    IF n = 0 THEN {<<>>}
    ELSE OpportunityLists(n - 1)
         \cup { Append(l, ScoredOpportunity(n, pr, im, po, co)) :
                  l \in { x \in OpportunityLists(n - 1) : Len(x) = n - 1 },
                  pr \in {"high", "medium", "low"}, im \in {150, 6000},
                  po \in {0, 1, 25}, co \in {75, 80} }

\* the if/elif/else on opp.priority
PriorityWeight(priority) ==
    IF priority = "high" THEN 100 ELSE IF priority = "medium" THEN 50 ELSE 10

\* "if opp.current_impressions: score += min(opp.current_impressions / 100, 50)"
ImpressionsWeight100(impressions) ==
    IF impressions # 0 THEN Min(impressions, 5000) ELSE 0

\* "if opp.current_position: score += max(0, 20 - opp.current_position)":
\* a position of 0 is falsy
PositionWeight(position) == IF position # 0 THEN Max(0, 20 - position) ELSE 0

\* the score of the loop body, times 100
Score100(opp) ==
    PriorityWeight(opp.priority) * 100
    + ImpressionsWeight100(opp.current_impressions)
    + PositionWeight(opp.current_position) * 100
    + opp.confidence * 20

\* o put into a list sorted by score descending, after every element of
\* the same or a higher score
InsertByScore(list, o) ==
    LET after == { i \in DOMAIN list : Score100(o) > Score100(list[i]) }
        k == IF after = {} THEN Len(list) + 1
             ELSE CHOOSE i \in after : \A j \in after : i <= j
    IN  SubSeq(list, 1, k - 1) \o <<o>> \o SubSeq(list, k, Len(list))

\* scored.sort(key=lambda x: x[0], reverse=True): stable
RECURSIVE SortByScore(_)
SortByScore(list) ==
    IF list = <<>> THEN <<>>
    ELSE InsertByScore(SortByScore(SubSeq(list, 1, Len(list) - 1)), list[Len(list)])

\* [opp for _, opp in scored[:max_results]], max_results >= 0
prioritize(list, n) == SubSeq(SortByScore(list), 1, Min(n, Len(list)))

PrioritizeInit ==
    /\ opps \in OpportunityLists(MaxOpps)
    /\ max_results \in 0..MaxResults
    /\ prioritized = NotDetected

Prioritize ==
    /\ prioritized = NotDetected
    /\ prioritized' = Returned(prioritize(opps, max_results))
    /\ UNCHANGED <<opps, max_results>>

PrioritizeNext ==
    /\ Prioritize
    /\ UNCHANGED <<scoreVars, retryVars, batchVars, limiterVars, requestVars>>
    /\ UNCHANGED <<matchVars, oppVars, detectVars, laterVars>>

(***************************************************************************)
(* utils.validators.validate_keywords.  A str is a sequence of characters. *)
(***************************************************************************)
MaxText == 3

MaxItemText == 2

Chars == {"a", "A", "b", " ", ","}

RECURSIVE Texts(_)
Texts(n) ==
    IF n = 0 THEN {<<>>}
    ELSE Texts(n - 1)
         \cup { Append(s, c) : s \in { x \in Texts(n - 1) : Len(x) = n - 1 }, c \in Chars }

StrArgument(text) == [kind |-> "str", text |-> text, items |-> <<>>]

ListArgument(items) == [kind |-> "list", text |-> <<>>, items |-> items]

\* the class [,;\n] of the pattern
IsSeparator(c) == c \in {",", ";", "\n"}

IsSpace(c) == c \in {" ", "\t", "\n"}

\* re.split(r"[,;\n]+", s) from character i on: a run of separators ends the
\* piece cur; the last piece is kept even when empty
RECURSIVE SplitFrom(_, _, _, _)
SplitFrom(s, i, cur, acc) ==
    IF i > Len(s) THEN Append(acc, cur)
    ELSE IF IsSeparator(s[i])
        THEN IF i < Len(s) /\ IsSeparator(s[i + 1])
             THEN SplitFrom(s, i + 1, cur, acc)
             ELSE SplitFrom(s, i + 1, <<>>, Append(acc, cur))
    ELSE SplitFrom(s, i + 1, Append(cur, s[i]), acc)

split(s) == SplitFrom(s, 1, <<>>, <<>>)

\* str.strip()
RECURSIVE strip(_)
strip(s) ==
    IF s = <<>> THEN s
    ELSE IF IsSpace(s[1]) THEN strip(Tail(s))
    ELSE IF IsSpace(s[Len(s)]) THEN strip(SubSeq(s, 1, Len(s) - 1))
    ELSE s

\* "kw = kw.strip().lower()"
Normalized(kw) == lower(strip(kw))

\* the loop: "if kw and kw not in seen: cleaned.append(kw)"
RECURSIVE CleanFrom(_, _, _)
CleanFrom(list, i, cleaned) ==
    IF i > Len(list) THEN cleaned
    ELSE LET kw == Normalized(list[i])
         IN  IF kw # <<>> /\ \A j \in DOMAIN cleaned : cleaned[j] # kw
             THEN CleanFrom(list, i + 1, Append(cleaned, kw))
             ELSE CleanFrom(list, i + 1, cleaned)

Validated(list) == [kind |-> "ok", list |-> list, exc |-> None]

ValidateRaised(cls) == [kind |-> "raise", list |-> <<>>, exc |-> cls]

\* "if isinstance(keywords, str): keywords = re.split(...)"
Pieces(arg) == IF arg.kind = "str" THEN split(arg.text) ELSE arg.items

validate_keywords(arg) ==
    LET cleaned == CleanFrom(Pieces(arg), 1, <<>>)
    IN  IF cleaned = <<>> THEN ValidateRaised("ConfigurationError")
        ELSE Validated(cleaned)

KeywordArguments ==
    { StrArgument(s) : s \in Texts(MaxText) }
    \cup { ListArgument(<<>>) }
    \cup { ListArgument(<<s>>) : s \in Texts(MaxItemText) }
    \cup { ListArgument(<<s, t>>) : s \in Texts(MaxItemText), t \in Texts(1) }

ValidateInit ==
    /\ keywords_arg \in KeywordArguments
    /\ validated = NotValidated

Validate ==
    /\ validated = NotValidated
    /\ validated' = validate_keywords(keywords_arg)
    /\ UNCHANGED keywords_arg

ValidateNext ==
    /\ Validate
    /\ UNCHANGED <<scoreVars, retryVars, batchVars, limiterVars, requestVars>>
    /\ UNCHANGED <<matchVars, oppVars, detectVars, prioritizeVars, loopVars, parseVars>>
    /\ UNCHANGED analysis

(***************************************************************************)
(* The batch loops: KeywordAnalyzer.batch_analyze,                         *)
(* SerperCollector.batch_analyze and DuckDuckGoCollector.batch_collect.    *)
(* Each item of the argument carries the way its call ends: it returns, it *)
(* returns an error response (DuckDuckGoCollector.collect catches every    *)
(* Exception itself), or it raises an exception of the class named.        *)
(***************************************************************************)
MaxBatch == 3

\* time.sleep(0.5), in tenths of a second
BatchDelay == 5

BatchOps == {"KeywordAnalyzer.batch_analyze", "SerperCollector.batch_analyze",
             "DuckDuckGoCollector.batch_collect"}

ItemEnds(op) ==
    IF op = "DuckDuckGoCollector.batch_collect" THEN {"returned", "error_response"}
    ELSE {"returned", "RateLimitError", "ValueError"}

Item(key, ends) == [key |-> key, ends |-> ends]

RECURSIVE ItemLists(_, _)
ItemLists(op, n) ==
    IF n = 0 THEN {<<>>}
    ELSE ItemLists(op, n - 1)
         \cup { Append(l, Item(k, e)) :
                  l \in { x \in ItemLists(op, n - 1) : Len(x) = n - 1 },
                  k \in 1..2, e \in ItemEnds(op) }

CallEvent(i) == [kind |-> "call", item |-> i, seconds10 |-> 0]

SleepEvent(d) == [kind |-> "sleep", item |-> 0, seconds10 |-> d]

ItemRaises(item) == item.ends \notin {"returned", "error_response"}

LoopInit ==
    /\ batch_op \in BatchOps
    /\ queries \in ItemLists(batch_op, MaxBatch)
    /\ cursor = 1 /\ out = <<>> /\ timeline = <<>> /\ finished = "running"

InLoop(op) == batch_op = op /\ finished = "running" /\ cursor <= Len(queries)

\* KeywordAnalyzer.batch_analyze: "results[keyword] = self.analyze(...)",
\* "except Exception" logs and goes on; there is no sleep
AnalyzerLoopStep ==
    /\ InLoop("KeywordAnalyzer.batch_analyze")
    /\ timeline' = Append(timeline, CallEvent(cursor))
    /\ IF ~ItemRaises(queries[cursor])
       THEN /\ out' = DictSet(out, queries[cursor].key, "analysis")
            /\ finished' = finished
       ELSE /\ out' = out
            /\ finished' = IF BatchCatches(Exc(queries[cursor].ends, NoHint, cursor))
                            THEN finished ELSE "raised"
    /\ cursor' = cursor + 1
    /\ UNCHANGED <<batch_op, queries>>

\* SerperCollector.batch_analyze: "results[keyword] = self.analyze_keyword(...)"
\* then "time.sleep(0.5)" inside the try; "except Exception as e" stores
\* {"error": str(e)} under the keyword
SerperLoopStep ==
    /\ InLoop("SerperCollector.batch_analyze")
    /\ IF ~ItemRaises(queries[cursor])
       THEN /\ out' = DictSet(out, queries[cursor].key, "analysis")
            /\ timeline' = timeline \o <<CallEvent(cursor), SleepEvent(BatchDelay)>>
            /\ finished' = finished
       ELSE /\ timeline' = Append(timeline, CallEvent(cursor))
            /\ IF BatchCatches(Exc(queries[cursor].ends, NoHint, cursor))
               THEN out' = DictSet(out, queries[cursor].key, "error") /\ finished' = finished
               ELSE out' = out /\ finished' = "raised"
    /\ cursor' = cursor + 1
    /\ UNCHANGED <<batch_op, queries>>

\* DuckDuckGoCollector.batch_collect: "results[query] = self.collect(...)"
\* then "time.sleep(0.5)"; collect returns its error response, so the except
\* branch is not taken
DuckDuckGoLoopStep ==
    /\ InLoop("DuckDuckGoCollector.batch_collect")
    /\ out' = DictSet(out, queries[cursor].key, queries[cursor].ends)
    /\ timeline' = timeline \o <<CallEvent(cursor), SleepEvent(BatchDelay)>>
    /\ cursor' = cursor + 1
    /\ UNCHANGED <<batch_op, queries, finished>>

\* "return results"
LoopReturn ==
    /\ finished = "running" /\ cursor > Len(queries)
    /\ finished' = "returned"
    /\ UNCHANGED <<batch_op, queries, cursor, out, timeline>>

LoopNext ==
    /\ (AnalyzerLoopStep \/ SerperLoopStep \/ DuckDuckGoLoopStep \/ LoopReturn)
    /\ UNCHANGED <<scoreVars, retryVars, batchVars, limiterVars, requestVars>>
    /\ UNCHANGED <<matchVars, oppVars, detectVars, prioritizeVars, validateVars>>
    /\ UNCHANGED <<parseVars, analysis>>

(***************************************************************************)
(* SerperCollector._parse_results.  An item of data["organic"] has its     *)
(* "position" (NoPosition: no such key) and is well formed or not (a       *)
(* title that is no string fails the validation of SERPResult).  A parsed  *)
(* result keeps the index of its item in the batch.                        *)
(***************************************************************************)
MaxRank == 3

MaxOrganic == 3

ProviderRanks == {NoPosition} \cup 0..MaxRank

OrganicItem(position, wellFormed) == [position |-> position, wellFormed |-> wellFormed]

RECURSIVE OrganicBatches(_)
OrganicBatches(n) ==
    IF n = 0 THEN {<<>>}
    ELSE OrganicBatches(n - 1)
         \cup { Append(b, OrganicItem(p, w)) :
                  b \in { x \in OrganicBatches(n - 1) : Len(x) = n - 1 },
                  p \in ProviderRanks, w \in BOOLEAN }

SERPResult(position, item) == [position |-> position, item |-> item]

\* SERPResult(...) validates: position: int = Field(ge=1, le=100)
IsValidSERPResult(position, item) == item.wellFormed /\ position \in 1..100

\* item.get("position", len(results) + 1)
PositionOrDefault(item, results_) ==
    IF item.position = NoPosition THEN Len(results_) + 1 ELSE item.position

\* the loop "for item in organic", from item i on: "except Exception" skips
\* the item
RECURSIVE ParseFrom(_, _, _)
ParseFrom(organic_, i, results_) ==
    IF i > Len(organic_) THEN results_
    ELSE LET position == PositionOrDefault(organic_[i], results_)
         IN  IF IsValidSERPResult(position, organic_[i])
             THEN ParseFrom(organic_, i + 1, Append(results_, SERPResult(position, i)))
             ELSE ParseFrom(organic_, i + 1, results_)

_parse_results(d) == ParseFrom(d, 1, <<>>)

ParseInit ==
    /\ data \in OrganicBatches(MaxOrganic)
    /\ parsed = NotDetected

Parse ==
    /\ parsed = NotDetected
    /\ parsed' = Returned(_parse_results(data))
    /\ UNCHANGED data

ParseNext ==
    /\ Parse
    /\ UNCHANGED <<scoreVars, retryVars, batchVars, limiterVars, requestVars>>
    /\ UNCHANGED <<matchVars, oppVars, detectVars, prioritizeVars, validateVars>>
    /\ UNCHANGED <<loopVars, analysis>>

(***************************************************************************)
(* KeywordAnalyzer.analyze from the target search on: the search, then     *)
(* _identify_opportunities, then the KeywordAnalysis.                      *)
(***************************************************************************)
\* KeywordAnalysis.target_position: Field(default=None, ge=0, le=100)
MaxTargetPosition == 100

AnalysisHosts == {<<"a">>, <<"b">>, <<"www.", "A">>}

\* serp.organic as the scorer reads it: the same entries, without sitelinks
OrganicEntries(hosts, ranks) == [i \in DOMAIN hosts |-> Entry(ranks[i], Absent, hosts[i])]

\* the ranks of the analyzed responses; one is above what KeywordAnalysis
\* accepts
AnalysisRanks(n) ==
    PositionLists(n) \cup (IF n = 1 THEN {<<MaxTargetPosition + 1>>} ELSE {})

AnalysisInit ==
    /\ target_url \in {NoTarget} \cup { Target(h) : h \in AnalysisHosts }
    /\ organic \in {<<>>} \cup { <<h>> : h \in AnalysisHosts }
                   \cup { <<h, o>> : h, o \in AnalysisHosts }
    /\ positions \in AnalysisRanks(Len(organic))
    /\ \E nr \in {0, MaxRelated} :
          serp = SerperFullResponse(OrganicEntries(organic, positions), None, nr, 0)
    /\ now = 0 /\ metrics = <<>> /\ serperMetrics = <<>> /\ apiMetrics = <<>>
    /\ found = 0 /\ target_position = NoPosition /\ is_ranking = FALSE /\ matched = FALSE
    /\ OppIdle /\ AnalyzeIdle

KeywordAnalysis(p, ranking, opportunities_) ==
    [kind |-> "ok", target_position |-> p, is_ranking |-> ranking,
     opportunities |-> opportunities_]

\* the pydantic ValidationError of KeywordAnalysis(...)
AnalysisFailed ==
    [kind |-> "raise", target_position |-> NoPosition, is_ranking |-> FALSE,
     opportunities |-> <<>>]

\* "analysis = KeywordAnalysis(...)" and "return analysis"
BuildAnalysis ==
    /\ matched /\ identified /\ analysis = NotAnalyzed
    /\ analysis' = IF target_position \in {NoPosition} \cup 0..MaxTargetPosition
                    THEN KeywordAnalysis(target_position, is_ranking, opportunities)
                    ELSE AnalysisFailed
    /\ UNCHANGED <<scoreVars, retryVars, batchVars, limiterVars, requestVars>>
    /\ UNCHANGED <<matchVars, oppVars, detectVars, prioritizeVars>>
    /\ UNCHANGED <<validateVars, loopVars, parseVars>>

AnalysisNext ==
    \/ MatchNext
    \/ (matched /\ OppNext)
    \/ BuildAnalysis

(***************************************************************************)
(* The specifications.                                                     *)
(***************************************************************************)
InitScore == ScoreInit /\ RetryIdle /\ BatchIdle /\ LimiterIdle /\ AnalysisIdle

InitRetry == RetryInit /\ ScoreIdle /\ BatchIdle /\ LimiterIdle /\ AnalysisIdle

InitBatch ==
    /\ BatchInit /\ ScoreIdle /\ LimiterIdle /\ AnalysisIdle
    /\ callee = None /\ cfg = None
    /\ attempt = 0 /\ delay = 0 /\ pending = NoResult /\ last_exception = NoException
    /\ sleeps = <<>> /\ invocations = 0 /\ failures = <<>>
    /\ outcome = NoResult

InitLimiter == LimiterInit /\ ScoreIdle /\ RetryIdle /\ BatchIdle /\ AnalysisIdle

InitMatch ==
    /\ MatchInit /\ OppIdle /\ DetectIdle /\ PrioritizeIdle /\ LaterIdle
    /\ ScoreIdle /\ RetryIdle /\ BatchIdle /\ LimiterIdle

InitOpp ==
    /\ OppInit /\ DetectIdle /\ PrioritizeIdle /\ LaterIdle
    /\ RetryIdle /\ BatchIdle /\ LimiterIdle

InitDetect ==
    /\ DetectInit /\ MatchIdle /\ OppIdle /\ PrioritizeIdle /\ LaterIdle
    /\ ScoreIdle /\ RetryIdle /\ BatchIdle /\ LimiterIdle

InitPrioritize ==
    /\ PrioritizeInit /\ MatchIdle /\ OppIdle /\ DetectIdle /\ LaterIdle
    /\ ScoreIdle /\ RetryIdle /\ BatchIdle /\ LimiterIdle

InitValidate ==
    /\ ValidateInit /\ LoopIdle /\ ParseIdle /\ AnalyzeIdle /\ MatchIdle /\ OppIdle /\ DetectIdle /\ PrioritizeIdle
    /\ ScoreIdle /\ RetryIdle /\ BatchIdle /\ LimiterIdle

InitLoop ==
    /\ LoopInit /\ ValidateIdle /\ ParseIdle /\ AnalyzeIdle /\ MatchIdle /\ OppIdle /\ DetectIdle /\ PrioritizeIdle
    /\ ScoreIdle /\ RetryIdle /\ BatchIdle /\ LimiterIdle

InitParse ==
    /\ ParseInit /\ ValidateIdle /\ LoopIdle /\ AnalyzeIdle /\ MatchIdle /\ OppIdle /\ DetectIdle
    /\ PrioritizeIdle /\ ScoreIdle /\ RetryIdle /\ BatchIdle /\ LimiterIdle

InitAnalysis ==
    /\ AnalysisInit /\ ValidateIdle /\ LoopIdle /\ ParseIdle /\ DetectIdle
    /\ PrioritizeIdle /\ RetryIdle /\ BatchIdle /\ LimiterIdle

SpecScore == InitScore /\ [][ScoreNext]_vars

SpecRetry == InitRetry /\ [][RetryNext]_vars

SpecBatch == InitBatch /\ [][BatchNext]_vars

SpecLimiter == InitLimiter /\ [][LimiterNext]_vars

SpecRequests == InitLimiter /\ [][RequestsNext]_vars

SpecLimiterFair ==
    /\ InitLimiter /\ [][FairLimiterNext]_vars
    /\ WF_vars(TimePasses)
    /\ \A t \in Threads : WF_vars(ThreadStep(t))

SpecMatch == InitMatch /\ [][MatchNext]_vars

SpecOpp == InitOpp /\ [][OppNext]_vars

SpecDetect == InitDetect /\ [][DetectNext]_vars

SpecPrioritize == InitPrioritize /\ [][PrioritizeNext]_vars

SpecValidate == InitValidate /\ [][ValidateNext]_vars

SpecLoop == InitLoop /\ [][LoopNext]_vars

SpecParse == InitParse /\ [][ParseNext]_vars

SpecAnalysis == InitAnalysis /\ [][AnalysisNext]_vars

Init == InitScore \/ InitRetry \/ InitBatch \/ InitLimiter \/ InitMatch \/ InitOpp
        \/ InitDetect \/ InitPrioritize \/ InitValidate
        \/ InitLoop \/ InitParse \/ InitAnalysis

Next == ScoreNext \/ RetryNext \/ BatchNext \/ LimiterNext \/ RequestsNext \/ MatchNext
           \/ OppNext \/ DetectNext \/ PrioritizeNext \/ ValidateNext
           \/ LoopNext \/ ParseNext \/ AnalysisNext
           \/ FairLimiterNext

Spec == Init /\ [][Next]_vars

(***************************************************************************)
(* Properties of the competition scorer (SpecScore).                       *)
(***************************************************************************)
\* C1: every CompetitionMetrics the scorers produce (the analyzer's and the
\* Serper metrics class's) has competition_score in 0..100 and
\* competition_score + opportunity_score = 100.
C1_ScoreInRange ==
    /\ \A i \in DOMAIN metrics :
          /\ metrics[i].competition_score \in 0..100
          /\ metrics[i].competition_score + metrics[i].opportunity_score = 100
    /\ \A i \in DOMAIN serperMetrics :
          /\ serperMetrics[i].competition_score \in 0..100
          /\ serperMetrics[i].competition_score + serperMetrics[i].opportunity_score = 100

\* both scorers have scored a response that carries a featured snippet and
\* reaches the top of the range
C1_Witness ==
    /\ Len(metrics) >= 1 /\ Len(serperMetrics) = 1
    /\ \E i \in DOMAIN serp.organic : serp.organic[i].position = 0
    /\ metrics[1].competition_score = 100
    /\ serperMetrics[1].opportunity_score = 0

\* the table of section 4.4, read off the response: a knowledge graph is
\* present when the response carries a non-empty knowledgeGraph object,
\* sitelinks when some organic entry carries a non-empty sitelinks list, a
\* featured snippet when some organic entry is at position 0
TableSum(s) ==
    (IF Len(s.organic) >= 10 THEN 25
     ELSE IF Len(s.organic) \in 5..9 THEN 15 ELSE 5)
    + (IF s.knowledge_graph = "panel" THEN 20 ELSE 0)
    + Min(3 * Len(s.related_searches), 15)
    + Min(3 * Len(s.people_also_ask), 15)
    + (IF \E i \in DOMAIN s.organic : s.organic[i].sitelinks = "links" THEN 15 ELSE 0)
    + (IF \E i \in DOMAIN s.organic : s.organic[i].position = 0 THEN 10 ELSE 0)

\* 10 organic results, knowledge graph, 5 related, 5 PAA, sitelinks, snippet
AllFeatures(s) ==
    /\ Len(s.organic) = 10 /\ s.knowledge_graph = "panel"
    /\ Len(s.related_searches) = 5 /\ Len(s.people_also_ask) = 5
    /\ \E i \in DOMAIN s.organic : s.organic[i].sitelinks = "links"
    /\ \E i \in DOMAIN s.organic : s.organic[i].position = 0

DifficultyMatches(m) ==
    /\ m.difficulty = "High" <=> m.competition_score >= 70
    /\ m.difficulty = "Medium" <=> (40 <= m.competition_score /\ m.competition_score <= 69)
    /\ m.difficulty = "Low" <=> m.competition_score < 40

\* C3: in every CompetitionMetrics produced, difficulty is High exactly when
\* the score is >= 70, Medium exactly when it is 40..69, Low exactly when it
\* is below 40.
C3_Difficulty ==
    /\ \A i \in DOMAIN metrics : DifficultyMatches(metrics[i])
    /\ \A i \in DOMAIN serperMetrics : DifficultyMatches(serperMetrics[i])

\* a response scoring exactly 40 has been labelled Medium by both scorers
C3_Witness ==
    /\ Len(metrics) >= 1 /\ Len(serperMetrics) = 1
    /\ metrics[1].competition_score = 40 /\ metrics[1].difficulty = "Medium"
    /\ serperMetrics[1].competition_score = 40 /\ serperMetrics[1].difficulty = "Medium"

\* the other boundary scores are produced as well (each is reachable)
C3_Scored39 == Len(metrics) >= 1 /\ metrics[1].competition_score = 39

C3_Scored69 == Len(metrics) >= 1 /\ metrics[1].competition_score = 69

C3_Scored70 == Len(metrics) >= 1 /\ metrics[1].competition_score = 70

WithoutTimestamp(m) == [f \in DOMAIN m \ {"analyzed_at"} |-> m[f]]

RECURSIVE Succeeded(_)
Succeeded(n) ==
    IF n = 0 THEN <<>>
    ELSE IF analyzed[n] /\ ~\E i \in 1..(n - 1) : analyzed[i] /\ keywords[i] = keywords[n]
         THEN Append(Succeeded(n - 1), keywords[n])
         ELSE Succeeded(n - 1)

\* C5: batch_analyze never raises; it processes every keyword, and the keys
\* of the map it builds are exactly the keywords whose analyze() succeeded,
\* in input order, whatever failed before them.
C5_BatchNeverFails ==
    /\ batchOutcome # "raised"
    /\ Len(analyzed) = idx - 1
    /\ Keys(results) = Succeeded(Len(analyzed))
    /\ batchOutcome = "returned" => Len(analyzed) = Len(keywords)

\* three keywords, the second failed: the map holds the first and the third
C5_Witness ==
    /\ batchOutcome = "returned" /\ Len(keywords) = 3
    /\ analyzed = <<TRUE, FALSE, TRUE>>
    /\ keywords[1] # keywords[3]
    /\ Keys(results) = <<keywords[1], keywords[3]>>

\* the provider's answer is a recoverable failure: a timeout, a network
\* error, or a status other than 200, 401 and 403
Recoverable(a) == a.kind # "response" \/ a.status \notin {200, 401, 403}

\* the keyword's trimmed length is outside 2..200
BadLength(k) == KLen(Strip(k)) < 2 \/ KLen(Strip(k)) > 200

\* analyze(keywords[i]) ended by raising an exception of one of the classes
AnalyzeRaised(i, classes) == ~analyzed[i] /\ IsInstance(raised[i], classes)

\* what one call of analyze() on the keyword at idx leaves behind, the
\* validation failure being of class cls
AnalyzeStep(cls) ==
    (batchOutcome = "running" /\ idx <= Len(keywords) /\ idx' = idx + 1) =>
        LET k == keywords[idx]
        IN  /\ BadLength(k) <=> (~analyzed'[idx] /\ IsInstance(raised'[idx], {cls}))
            /\ BadLength(k) => /\ requests' = requests
                               /\ _last_request_time' = _last_request_time
            /\ analyzed'[idx] =>
                  \E j \in DOMAIN results' :
                      /\ results'[j].key = k
                      /\ results'[j].value.keyword = Strip(k)

FetchStep ==
    /\ batchOutcome = "running" /\ idx <= Len(keywords) /\ idx' = idx + 1
    /\ Len(requests') > Len(requests)

\* the answer to the first request of that call
FirstAnswer == requests'[Len(requests) + 1]

\* C17 as stated: the fetch of analyze goes through the limiter and the
\* retry wrapper, so analyze does not fail on a transient failure of the
\* fetch (timeout, 429, other non-auth non-200) before the fetch has been
\* attempted again.
C17_FetchRetried ==
    [][(FetchStep /\ Recoverable(FirstAnswer) /\ ~analyzed'[idx]) =>
          Len(requests') >= Len(requests) + 2]_vars

\* what the code does: the fetch goes through the limiter, one request is
\* made, and analyze fails as soon as that request fails
C17_FetchOnce ==
    [][FetchStep =>
          /\ Len(requests') = Len(requests) + 1
          /\ _last_request_time' >= _last_request_time + MinInterval
          /\ analyzed'[idx] <=> FirstAnswer.status = 200]_vars

\* analyze failed on a timeout after a single request
C17_FailedOnTimeout ==
    /\ Len(analyzed) = 1 /\ ~analyzed[1] /\ Len(requests) = 1
    /\ requests[1].kind = "Timeout" /\ IsInstance(raised[1], {"Timeout"})

(***************************************************************************)
(* Properties of the retry wrapper and of SerperCollector.collect          *)
(* (SpecRetry).  failures[i] is the exception of the i-th failed           *)
(* invocation; sleeps[i] is the sleep that followed it.                    *)
(***************************************************************************)
RECURSIVE Power(_, _)
Power(b, n) == IF n = 0 THEN 1 ELSE b * Power(b, n - 1)

\* every failure so far was retryable and carried no retry-after hint
PlainFailures ==
    \A i \in DOMAIN failures :
        /\ IsInstance(failures[i], cfg.exceptions)
        /\ failures[i].retry_after = NoHint

\* C6 as stated: after k >= 1 retryable failures without hint followed by a
\* success the wrapper returns that success after k + 1 invocations and k
\* sleeps, the i-th sleep is delay_seconds x backoff_factor^(i-1), and for
\* backoff_factor > 1 every sleep is longer than the one before.
C6_ExponentialBackoff ==
    (callee # None /\ outcome.kind = "ok" /\ Len(failures) >= 1 /\ PlainFailures) =>
        /\ invocations = Len(failures) + 1
        /\ Len(sleeps) = Len(failures)
        /\ outcome.value.call = invocations
        /\ \A i \in DOMAIN sleeps :
              sleeps[i] * Power(2, i - 1) = cfg.delay_seconds * Power(cfg.backoff, i - 1)
        /\ cfg.backoff > 2 => \A i \in 2..Len(sleeps) : sleeps[i] > sleeps[i - 1]

\* what the code does there: the counts hold, and the i-th sleep is the
\* delay truncated to an integer at every round
RECURSIVE TruncatedDelay(_, _, _)
TruncatedDelay(d, halves, i) ==
    IF i = 1 THEN d ELSE (TruncatedDelay(d, halves, i - 1) * halves) \div 2

C6_TruncatedBackoff ==
    (callee # None /\ outcome.kind = "ok" /\ Len(failures) >= 1 /\ PlainFailures) =>
        /\ invocations = Len(failures) + 1
        /\ Len(sleeps) = Len(failures)
        /\ outcome.value.call = invocations
        /\ \A i \in DOMAIN sleeps :
              sleeps[i] = TruncatedDelay(cfg.delay_seconds, cfg.backoff, i)

\* C7: when every attempt fails with a retryable error, the wrapper invokes
\* the operation max_attempts times, sleeps max_attempts - 1 times, and
\* raises the exception object of the last attempt.
C7_ExhaustedRaisesLast ==
    (callee # None /\ outcome.kind = "raise"
        /\ \A i \in DOMAIN failures : IsInstance(failures[i], cfg.exceptions)) =>
        /\ invocations = cfg.max_attempts
        /\ Len(failures) = cfg.max_attempts
        /\ Len(sleeps) = cfg.max_attempts - 1
        /\ outcome.exc = failures[Len(failures)]
        /\ outcome.exc.id = invocations

\* three attempts, all failed with a retryable error: the third is raised
C7_Witness ==
    /\ callee = "func" /\ cfg.max_attempts = 3
    /\ outcome.kind = "raise" /\ outcome.exc.id = 3
    /\ Len(sleeps) = 2 /\ invocations = 3
    /\ \A i \in DOMAIN failures : IsInstance(failures[i], cfg.exceptions)

\* C8 as stated: when the provider answers 401 or 403 to collect, one
\* request is made, nothing is slept, and the AuthenticationError of that
\* first request is what the caller gets.
C8_AuthNotRetried ==
    (callee = "collect" /\ Len(requests) >= 1 /\ requests[1].status \in {401, 403}) =>
        /\ Len(requests) = 1
        /\ sleeps = <<>>
        /\ outcome.kind # "none" =>
              /\ outcome.kind = "raise"
              /\ outcome.exc = Exc("AuthenticationError", NoHint, 1)

\* C9 as stated: a rate-limit failure that carries a retry-after hint of N
\* seconds (N >= 0) and is retried is followed by a sleep of exactly N.
C9_RetryAfterHonoured ==
    \A i \in DOMAIN sleeps :
        (failures[i].cls = "RateLimitError" /\ failures[i].retry_after # NoHint) =>
            sleeps[i] = failures[i].retry_after

\* what the code does: a hint of N >= 1 is slept, a hint of 0 is ignored
C9_PositiveRetryAfterHonoured ==
    \A i \in DOMAIN sleeps :
        (failures[i].cls = "RateLimitError" /\ failures[i].retry_after # NoHint
            /\ failures[i].retry_after # 0) =>
            sleeps[i] = failures[i].retry_after

\* collect has ended and every request it made met a recoverable failure
CollectEndedOnFailures ==
    /\ callee = "collect" /\ outcome.kind # "none" /\ Len(requests) >= 1
    /\ \A i \in DOMAIN requests : Recoverable(requests[i])

\* collect returned a CollectorResponse with success=false, no data and an
\* error message
ReturnedErrorResponse ==
    /\ outcome.kind = "ok"
    /\ outcome.value.success = FALSE /\ outcome.value.json = 0
    /\ outcome.value.error # None

\* C16 as stated: whatever recoverable failures its attempts met (429
\* included), collect raises nothing and returns an error response.
C16_NeverRaises == CollectEndedOnFailures => ReturnedErrorResponse

\* what the code does: that holds unless the last answer was a 429, and
\* then collect raises the RateLimitError of its last attempt
C16_RaisesRateLimit ==
    CollectEndedOnFailures =>
        IF requests[Len(requests)].status = 429
        THEN /\ outcome.kind = "raise" /\ outcome.exc.cls = "RateLimitError"
             /\ Len(requests) = CollectRetry.max_attempts
        ELSE ReturnedErrorResponse

\* a 429 on the first attempt, a timeout on the second: an error response
C16_RecoveredAfterRetry ==
    /\ CollectEndedOnFailures /\ Len(requests) = 2
    /\ requests[1].status = 429 /\ requests[2].kind = "Timeout"
    /\ ReturnedErrorResponse

(***************************************************************************)
(* Properties of the RateLimiter (SpecLimiter).                            *)
(***************************************************************************)
MutualExclusion == Cardinality(InCriticalSection) <= 1

Blocks(t) == IF wake[t] = 0 THEN 0 ELSE wake[t] - current_time[t]

\* the thread has read the clock in wait() and has not yet stored its own
\* timestamp: _last_request_time is still the previous call's
HasReadTime(t) == tpc[t] \in {"sleeping", "stamp"}

C12_NoBlock ==
    \E t \in Threads :
        /\ tpc[t] = "stamp" /\ Len(stamps) >= 1 /\ resets = 0
        /\ current_time[t] - _last_request_time >= MinInterval
        /\ Blocks(t) = 0

CanonicalHost(h) ==
    IF Len(h) >= 1 /\ IsWww(lower(h)[1]) THEN Tail(lower(h)) ELSE lower(h)

\* the results whose host equals the target's, in the above sense
EqualHostResults == { i \in DOMAIN organic :
                        CanonicalHost(organic[i]) = CanonicalHost(target_url.netloc) }

\* C14 as stated: with a target URL, is_ranking is true exactly when some
\* organic result has the target's host (lower-cased, leading "www." off),
\* and the position found is that of the first such result.
C14_EqualHosts ==
    (matched /\ target_url.given) =>
        /\ is_ranking <=> EqualHostResults # {}
        /\ is_ranking =>
              /\ found \in EqualHostResults
              /\ \A j \in EqualHostResults : found <= j
              /\ target_position = positions[found]

\* what the code does: the target's domain, every "www." removed, is looked
\* for as a substring of each result's domain
C14_SubstringOfHost ==
    (matched /\ target_url.given) =>
        /\ is_ranking <=> MatchingResults(target_url.netloc, organic) # {}
        /\ is_ranking =>
              /\ found \in MatchingResults(target_url.netloc, organic)
              /\ \A j \in MatchingResults(target_url.netloc, organic) : found <= j
              /\ target_position = positions[found]

\* target "A" ("https://Example.com") found on the result "www.a"
\* ("www.example.com")
C14_SpecExample ==
    /\ matched /\ target_url = Target(<<"A">>) /\ organic = <<<<"www.", "a">>>>
    /\ is_ranking /\ found = 1 /\ target_position = 1

\* target "a" found on the result "ba", a different host
C14_OtherHost ==
    /\ matched /\ target_url = Target(<<"a">>) /\ organic = <<<<"b", "a">>>>
    /\ is_ranking /\ found = 1 /\ target_position = 1

\* the provider's list is in ascending order of "position", every key present
InRankOrder ==
    /\ \A i \in DOMAIN positions : positions[i] # NoPosition
    /\ \A i, j \in DOMAIN positions : i < j => positions[i] < positions[j]

\* C22: when several organic results match the target, target_position is
\* the smallest position among them, in whatever order the provider returned
\* the organic list.
C22_SmallestPosition ==
    (matched /\ is_ranking) =>
        \A j \in MatchingResults(target_url.netloc, organic) :
            positions[j] # NoPosition => target_position <= positions[j]

\* C22, as the code has it: the position is that of the first match in the
\* order of the list, which is the smallest one when the list is in rank order
C22_FirstInListOrder ==
    (matched /\ is_ranking) =>
        /\ found = FirstInList(MatchingResults(target_url.netloc, organic))
        /\ target_position = positions[found]
        /\ InRankOrder =>
              \A j \in MatchingResults(target_url.netloc, organic) :
                  target_position <= positions[j]

\* two results match, the one ranked 2 is listed first, and 2 is the position
\* found
C22_LaterRankFound ==
    /\ matched /\ is_ranking
    /\ MatchingResults(target_url.netloc, organic) = {1, 2}
    /\ positions = <<2, 1>> /\ target_position = 2

(***************************************************************************)
(* Properties of _identify_opportunities (SpecOpp).                        *)
(***************************************************************************)
\* the types the list must hold, in order
ExpectedTypes ==
    <<IF target_position = NoPosition THEN "not_ranking"
      ELSE IF target_position > 10 THEN "position_improvement"
      ELSE IF target_position <= 3 THEN "maintain"
      ELSE "position_4_10">>
    \o (IF metrics[1].competition_score < 40 THEN <<"quick_win">> ELSE <<>>)
    \o (IF Len(serp.related_searches) > 3 THEN <<"keyword_expansion">> ELSE <<>>)

\* C15: the list is one positional opportunity, then quick_win iff the
\* competition score is below 40, then keyword_expansion (Medium) iff there
\* are more than 3 related searches; position_improvement is High up to
\* position 20 and Medium beyond, maintain is Low, position_4_10 is High.
C15_OpportunityList ==
    identified =>
        /\ [i \in DOMAIN opportunities |-> opportunities[i].type] = ExpectedTypes
        /\ Len(opportunities) \in 1..3
        /\ \A i \in DOMAIN opportunities :
              LET o == opportunities[i]
              IN  /\ o.type = "position_improvement" =>
                        o.priority = (IF target_position <= 20 THEN "high" ELSE "medium")
                  /\ o.type = "maintain" => o.priority = "low"
                  /\ o.type = "position_4_10" => o.priority = "high"
                  /\ o.type = "keyword_expansion" => o.priority = "medium"

\* position 20, low competition, more than 3 related searches: three
\* opportunities, the first of priority High
C15_Witness ==
    /\ identified /\ target_position = 20 /\ Len(opportunities) = 3
    /\ opportunities[1] = Opportunity("position_improvement", "high")
    /\ opportunities[2].type = "quick_win"
    /\ opportunities[3].type = "keyword_expansion"

\* not ranking, competition not low, few related searches: one opportunity
C15_OnlyPositional ==
    /\ identified /\ target_position = NoPosition
    /\ opportunities = <<Opportunity("not_ranking", "medium")>>

(***************************************************************************)
(* Properties of detect_from_gsc (SpecDetect).                             *)
(***************************************************************************)
\* the number of the three predicates that hold on the row
Holding(metric) ==
    (IF _is_low_ctr(metric) THEN 1 ELSE 0)
    + (IF _is_position_4_10(metric) THEN 1 ELSE 0)
    + (IF _is_high_impressions_low_clicks(metric) THEN 1 ELSE 0)

RECURSIVE HoldingOver(_, _)
HoldingOver(rows, n) == IF n = 0 THEN 0 ELSE HoldingOver(rows, n - 1) + Holding(rows[n])

\* the returned list holds an opportunity of that type, priority and
\* confidence for row q
Emitted(q, type, priority, confidence) ==
    \E i \in DOMAIN detected.list :
        /\ detected.list[i].query = q
        /\ detected.list[i].opportunity_type = type
        /\ detected.list[i].priority = priority
        /\ detected.list[i].confidence = confidence

\* the returned list is one opportunity per predicate that holds
OnePerPredicate ==
    /\ detected.kind = "ok"
    /\ Len(detected.list) = HoldingOver(gsc_metrics, Len(gsc_metrics))
    /\ \A q \in DOMAIN gsc_metrics :
          /\ _is_low_ctr(gsc_metrics[q]) <=> Emitted(q, "low_ctr", "high", 85)
          /\ _is_position_4_10(gsc_metrics[q]) <=> Emitted(q, "position_4_10", "high", 80)
          /\ _is_high_impressions_low_clicks(gsc_metrics[q])
                <=> Emitted(q, "high_impressions", "medium", 75)

\* C18 as stated: for any rows, detect_from_gsc returns one opportunity
\* per predicate that holds on a row and nothing else.
C18_OnePerPredicate == detected.kind # "none" => OnePerPredicate

\* what the code does: that holds when no row with many impressions and
\* few clicks has a position of 101 or more; with such a row the
\* construction of its Opportunity fails and nothing is returned
C18_UnlessPositionOver100 ==
    detected.kind # "none" =>
        IF \E q \in DOMAIN gsc_metrics :
              /\ gsc_metrics[q].position10 >= 1010
              /\ _is_high_impressions_low_clicks(gsc_metrics[q])
        THEN detected = Failed
        ELSE OnePerPredicate

\* a row on which the three predicates hold gave three opportunities
C18_ThreeFromOneRow ==
    /\ detected.kind = "ok" /\ Len(gsc_metrics) = 1 /\ Len(detected.list) = 3
    /\ Holding(gsc_metrics[1]) = 3

\* the position of x in the list as it stood before the sort
DetectionRank(o) ==
    o.query * 3 + (CASE o.opportunity_type = "low_ctr" -> 0
                     [] o.opportunity_type = "position_4_10" -> 1
                     [] OTHER -> 2)

\* C19: in the returned list High comes before non-High, impressions do
\* not increase within each of the two classes, and opportunities equal on
\* both keys are in the order of their detection.
C19_SortedByPriorityThenImpressions ==
    detected.kind = "ok" =>
        \A i, j \in DOMAIN detected.list : i < j =>
            LET a == detected.list[i]
                b == detected.list[j]
            IN  /\ b.priority = "high" => a.priority = "high"
                /\ (a.priority = "high") = (b.priority = "high") =>
                      a.current_impressions >= b.current_impressions
                /\ ((a.priority = "high") = (b.priority = "high")
                      /\ a.current_impressions = b.current_impressions) =>
                      DetectionRank(a) < DetectionRank(b)

\* the first row gave a Medium opportunity with 2000 impressions and the
\* second row two High ones with 1000: the sort moved these to the front
C19_Witness ==
    /\ detected.kind = "ok" /\ Len(detected.list) >= 3
    /\ detected.list[1].query = 2 /\ detected.list[1].priority = "high"
    /\ detected.list[2].query = 2 /\ detected.list[2].priority = "high"
    /\ detected.list[1].opportunity_type = "low_ctr"
    /\ detected.list[2].opportunity_type = "position_4_10"
    /\ detected.list[3].query = 1 /\ detected.list[3].priority = "medium"
    /\ detected.list[3].current_impressions > detected.list[1].current_impressions

(***************************************************************************)
(* Properties of prioritize (SpecPrioritize).                              *)
(***************************************************************************)
\* the score of the stated formula, times 100: priority weight
\* + min(impressions / 100, 50) + max(0, 20 - position) + confidence x 20
StatedScore100(opp) ==
    PriorityWeight(opp.priority) * 100
    + Min(opp.current_impressions, 5000)
    + Max(0, 20 - opp.current_position) * 100
    + opp.confidence * 20

\* the list returned is min(max_results, len) opportunities of the input,
\* none twice
TopOfInput ==
    /\ Len(prioritized.list) = Min(max_results, Len(opps))
    /\ \A i \in DOMAIN prioritized.list :
          \E k \in DOMAIN opps : opps[k] = prioritized.list[i]
    /\ \A i, j \in DOMAIN prioritized.list :
          i # j => prioritized.list[i].id # prioritized.list[j].id

\* the input opportunities that were not returned
Omitted ==
    { k \in DOMAIN opps : \A i \in DOMAIN prioritized.list : prioritized.list[i] # opps[k] }

\* C20 as stated: prioritize returns min(max_results, len) opportunities
\* of the input in non-increasing order of the stated score, and no
\* omitted opportunity has a higher stated score than a returned one.
C20_TopByStatedScore ==
    prioritized.kind = "ok" =>
        /\ TopOfInput
        /\ \A i, j \in DOMAIN prioritized.list : i < j =>
              StatedScore100(prioritized.list[i]) >= StatedScore100(prioritized.list[j])
        /\ \A k \in Omitted : \A i \in DOMAIN prioritized.list :
              StatedScore100(opps[k]) <= StatedScore100(prioritized.list[i])

\* what the code does: the same for the score it computes, in which a
\* position of 0 adds nothing
C20_TopByComputedScore ==
    prioritized.kind = "ok" =>
        /\ TopOfInput
        /\ \A i, j \in DOMAIN prioritized.list : i < j =>
              Score100(prioritized.list[i]) >= Score100(prioritized.list[j])
        /\ \A k \in Omitted : \A i \in DOMAIN prioritized.list :
              Score100(opps[k]) <= Score100(prioritized.list[i])

\* of two opportunities that differ only in position, the one at position
\* 1 was returned and the one at position 0 left out
C20_PositionZeroLeftOut ==
    /\ prioritized.kind = "ok" /\ Len(opps) = 2 /\ max_results = 1
    /\ opps[1].current_position = 0 /\ opps[2].current_position = 1
    /\ opps[1].priority = opps[2].priority
    /\ opps[1].current_impressions = opps[2].current_impressions
    /\ opps[1].confidence = opps[2].confidence
    /\ prioritized.list = <<opps[2]>>

(***************************************************************************)
(* Properties of validate_keywords (SpecValidate).                         *)
(***************************************************************************)
HasValidated == validated # NotValidated

\* some piece of the input has at least 2 characters after trimming
HasLongKeyword ==
    \E i \in DOMAIN Pieces(keywords_arg) : Len(strip(Pieces(keywords_arg)[i])) >= 2

\* C21: validate_keywords rejects with a ConfigurationError every input that
\* holds no keyword of at least 2 characters after trimming.
C21_RejectsShortKeywords ==
    (HasValidated /\ ~HasLongKeyword) => validated = ValidateRaised("ConfigurationError")

\* C21, as the code has it: the ConfigurationError is raised exactly when
\* every piece is empty after trimming; any other input is returned cleaned,
\* one-character keywords included.
C21_RejectsOnlyEmpty ==
    HasValidated =>
        IF \A i \in DOMAIN Pieces(keywords_arg) : strip(Pieces(keywords_arg)[i]) = <<>>
        THEN validated = ValidateRaised("ConfigurationError")
        ELSE /\ validated.kind = "ok"
             /\ validated.list # <<>>
             /\ \A i \in DOMAIN validated.list : validated.list[i] # <<>>

\* validate_keywords("a") has returned ["a"]
C21_SingleCharReturned ==
    /\ keywords_arg = StrArgument(<<"a">>)
    /\ validated = Validated(<< <<"a">> >>)

(***************************************************************************)
(* Agreement of the three scorers (SpecScore).                             *)
(***************************************************************************)
Verdict(m) == <<m.competition_score, m.opportunity_score, m.difficulty>>

AllScored == Len(metrics) >= 1 /\ Len(serperMetrics) = 1 /\ Len(apiMetrics) = 1

\* C23: on one response, KeywordAnalyzer._calculate_competition, the Serper
\* CompetitionMetrics class and SerperMetrics.from_api_response give the same
\* competition_score, opportunity_score and difficulty.
C23_ScorersAgree ==
    AllScored =>
        /\ Verdict(metrics[1]) = Verdict(serperMetrics[1])
        /\ Verdict(serperMetrics[1]) = Verdict(apiMetrics[1])

\* C23, as the code has it: the analyzer and the CompetitionMetrics class
\* agree; from_api_response gives no points for fewer than 10 organic
\* results, so its score is lower by 15 (5..9 results) or 5 (fewer)
C23_AgreeFromTenResults ==
    /\ (Len(metrics) >= 1 /\ Len(serperMetrics) = 1) =>
            Verdict(metrics[1]) = Verdict(serperMetrics[1])
    /\ AllScored =>
        /\ apiMetrics[1].competition_score
              = serperMetrics[1].competition_score
                - (IF Len(serp.organic) >= 10 THEN 0 ELSE OrganicPoints(Len(serp.organic)))
        /\ Len(serp.organic) >= 10 => Verdict(apiMetrics[1]) = Verdict(serperMetrics[1])

\* five plain results and nothing else: 15 for the analyzer, 0 for
\* from_api_response
C23_FiveResults ==
    /\ AllScored /\ Len(serp.organic) = 5
    /\ metrics[1].competition_score = 15 /\ apiMetrics[1].competition_score = 0

(***************************************************************************)
(* Properties of the batch loops (SpecLoop).                               *)
(***************************************************************************)
IsCall(e) == e.kind = "call"

\* the calls of two consecutive items stand at p and q of the timeline
ConsecutiveCalls(p, q) ==
    /\ p < q /\ IsCall(timeline[p]) /\ IsCall(timeline[q])
    /\ \A r \in (p + 1)..(q - 1) : ~IsCall(timeline[r])

SleptBetween(p, q) ==
    \E r \in (p + 1)..(q - 1) : timeline[r] = SleepEvent(BatchDelay)

\* C24: every batch operation sleeps the fixed delay between the processing
\* of any two consecutive items, whether the earlier one succeeded or failed.
C24_DelayBetweenItems ==
    \A p, q \in DOMAIN timeline : ConsecutiveCalls(p, q) => SleptBetween(p, q)

\* C24, as the code has it: DuckDuckGoCollector.batch_collect sleeps after
\* every item, SerperCollector.batch_analyze only after an item that
\* succeeded, KeywordAnalyzer.batch_analyze never
C24_DelayAfterSuccessOnly ==
    \A p, q \in DOMAIN timeline :
        ConsecutiveCalls(p, q) =>
            (SleptBetween(p, q) <=>
                \/ batch_op = "DuckDuckGoCollector.batch_collect"
                \/ /\ batch_op = "SerperCollector.batch_analyze"
                   /\ ~ItemRaises(queries[timeline[p].item]))

\* SerperCollector.batch_analyze went from a failed item to the next one
\* without a sleep
C24_NoDelayAfterFailure ==
    /\ batch_op = "SerperCollector.batch_analyze" /\ finished = "returned"
    /\ Len(queries) = 2 /\ ItemRaises(queries[1])
    /\ timeline = <<CallEvent(1), CallEvent(2), SleepEvent(BatchDelay)>>

\* KeywordAnalyzer.batch_analyze went through two successful items without a
\* sleep
C24_AnalyzerNeverSleeps ==
    /\ batch_op = "KeywordAnalyzer.batch_analyze" /\ finished = "returned"
    /\ timeline = <<CallEvent(1), CallEvent(2)>>
    /\ ~ItemRaises(queries[1]) /\ ~ItemRaises(queries[2])

KeySet(d) == { d[i].key : i \in DOMAIN d }

SucceededKeys ==
    { queries[i].key : i \in { j \in DOMAIN queries : ~ItemRaises(queries[j]) } }

SerperReturned == batch_op = "SerperCollector.batch_analyze" /\ finished = "returned"

\* C25: SerperCollector.batch_analyze never raises, and the keys of the map
\* it returns are exactly the keywords whose analyze_keyword succeeded.
C25_FailuresDropped ==
    /\ batch_op = "SerperCollector.batch_analyze" => finished # "raised"
    /\ SerperReturned => KeySet(out) = SucceededKeys

\* C25, as the code has it: it never raises, and every keyword is a key; a
\* keyword whose (last) analyze_keyword failed is mapped to {"error": ...}
C25_FailuresKeptAsErrors ==
    /\ batch_op = "SerperCollector.batch_analyze" => finished # "raised"
    /\ SerperReturned =>
          /\ KeySet(out) = { queries[i].key : i \in DOMAIN queries }
          /\ \A i \in DOMAIN out :
                LET last == CHOOSE j \in DOMAIN queries :
                                /\ queries[j].key = out[i].key
                                /\ \A k \in DOMAIN queries :
                                      queries[k].key = out[i].key => k <= j
                IN  out[i].value = IF ItemRaises(queries[last]) THEN "error"
                                   ELSE "analysis"

\* one keyword, whose analyze_keyword raised, is a key of the returned map
C25_FailedKeywordIsKey ==
    /\ SerperReturned /\ Len(queries) = 1 /\ ItemRaises(queries[1])
    /\ out = <<[key |-> queries[1].key, value |-> "error"]>>

(***************************************************************************)
(* Properties of SerperCollector._parse_results (SpecParse).               *)
(***************************************************************************)
HasParsed == parsed # NotDetected

\* the ranks the provider supplied are pairwise distinct
DistinctProviderRanks ==
    \A i, j \in DOMAIN data :
        (i # j /\ data[i].position # NoPosition) => data[i].position # data[j].position

DistinctParsedPositions ==
    \A i, j \in DOMAIN parsed.list :
        i # j => parsed.list[i].position # parsed.list[j].position

\* C26: an organic entry without a provider rank gets as position its
\* 1-based index within the provider's batch, also when earlier entries were
\* skipped as malformed; so the parsed positions are pairwise distinct
\* whenever the provider's ranks are.
C26_FallbackIsBatchIndex ==
    HasParsed =>
        /\ \A r \in DOMAIN parsed.list :
              data[parsed.list[r].item].position = NoPosition
                  => parsed.list[r].position = parsed.list[r].item
        /\ DistinctProviderRanks => DistinctParsedPositions

\* C26, as the code has it: the fallback is one more than the number of
\* results parsed so far (len(results) + 1); a rank given by the provider is
\* kept; malformed items and ranks outside 1..100 are skipped
C26_FallbackIsParsedCount ==
    HasParsed =>
        /\ \A r \in DOMAIN parsed.list :
              parsed.list[r].position =
                  IF data[parsed.list[r].item].position = NoPosition THEN r
                  ELSE data[parsed.list[r].item].position
        /\ \A r, q \in DOMAIN parsed.list : r < q => parsed.list[r].item < parsed.list[q].item
        /\ \A i \in DOMAIN data :
              (\E r \in DOMAIN parsed.list : parsed.list[r].item = i)
                  <=> /\ data[i].wellFormed
                      /\ data[i].position \in {NoPosition} \cup 1..100

\* the first item is malformed and skipped; the second, without a rank, is
\* given position 1 although it is item 2 of the batch
C26_IndexAfterSkipped ==
    /\ HasParsed /\ Len(data) = 2
    /\ ~data[1].wellFormed /\ data[2] = OrganicItem(NoPosition, TRUE)
    /\ parsed.list = <<SERPResult(1, 2)>>

\* the provider ranks the first item 2 and gives no rank to the second: both
\* are parsed with position 2
C26_DuplicatePositions ==
    /\ HasParsed
    /\ data = <<OrganicItem(2, TRUE), OrganicItem(NoPosition, TRUE)>>
    /\ parsed.list = <<SERPResult(2, 1), SERPResult(2, 2)>>

(***************************************************************************)
(* Hints and later delays in the retry wrapper (SpecRetry).                *)
(***************************************************************************)
\* the failure of round i carried no retry-after hint
WithoutHint(i) == failures[i].retry_after = NoHint

\* C27: within one wrapped call, the sleep after a failure without hint in
\* round r is delay_seconds * backoff_factor^(r-1), whether or not an earlier
\* failure of the call carried a hint: a hint replaces only its own round's
\* sleep.
C27_HintReplacesOneRound ==
    \A r \in DOMAIN sleeps :
        WithoutHint(r) =>
            sleeps[r] * Power(2, r - 1) = cfg.delay_seconds * Power(cfg.backoff, r - 1)

\* C27, as the code has it: the hint is assigned to delay itself, so the
\* delay of the next round is computed from the hint that was slept
C27_DelayFollowsLastSleep ==
    /\ sleeps # <<>> /\ WithoutHint(1) => sleeps[1] = cfg.delay_seconds
    /\ \A r \in DOMAIN sleeps :
          (r > 1 /\ WithoutHint(r)) => sleeps[r] = NextDelay(sleeps[r - 1], cfg.backoff)

\* delay_seconds 1 and factor 2: a hint of 2 s in round 1 is followed by a
\* sleep of 4 s in round 2, where the computed delay is 2 s
C27_LaterDelayFromHint ==
    /\ callee = "func" /\ cfg.delay_seconds = 1 /\ cfg.backoff = 4
    /\ Len(sleeps) = 2 /\ failures[1] = RateLimitError(2, 1) /\ WithoutHint(2)
    /\ sleeps = <<2, 4>>

(***************************************************************************)
(* Properties of the KeywordAnalysis returned by analyze (SpecAnalysis).   *)
(***************************************************************************)
AnalysisReturned == analysis.kind = "ok"

HasNotRanking ==
    \E i \in DOMAIN analysis.opportunities : analysis.opportunities[i].type = "not_ranking"

\* C28: in every KeywordAnalysis returned by analyze, is_ranking is true
\* exactly when target_position is not null, and the opportunities hold a
\* not_ranking one exactly when is_ranking is false, also for organic
\* entries without a position field.
C28_RankingIffPosition ==
    AnalysisReturned =>
        /\ analysis.is_ranking <=> analysis.target_position # NoPosition
        /\ HasNotRanking <=> ~analysis.is_ranking

\* C28, as the code has it: is_ranking tells whether a result matched, the
\* not_ranking opportunity whether target_position is None, and a matched
\* result without "position" gives both
C28_NotRankingIffNoPosition ==
    AnalysisReturned =>
        /\ analysis.is_ranking <=> found # 0
        /\ HasNotRanking <=> analysis.target_position = NoPosition
        /\ analysis.target_position # NoPosition => analysis.is_ranking
        /\ analysis.is_ranking => analysis.target_position = positions[found]

\* the matching result has no "position": is_ranking is true, the position
\* is null and the opportunities say not_ranking
C28_RankingWithoutPosition ==
    /\ AnalysisReturned /\ found = 1 /\ positions[1] = NoPosition
    /\ analysis.is_ranking /\ analysis.target_position = NoPosition /\ HasNotRanking

(***************************************************************************)
(* Failure of detect_from_gsc (SpecDetect).                                *)
(***************************************************************************)
\* a row whose Opportunity the model class refuses: int(position) above 100
\* on a row with many impressions and few clicks
RefusedRow(metric) ==
    /\ metric.position10 \div 10 > 100
    /\ _is_high_impressions_low_clicks(metric)

\* C29: detect_from_gsc returns a list and does not fail for every list of
\* valid GSCMetric rows, a position above 100 included.
C29_AlwaysReturnsList == detected # NotDetected => detected.kind = "ok"

\* C29, as the code has it: the call fails exactly when some row is a
\* refused one
C29_FailsOnRefusedRow ==
    detected # NotDetected =>
        (detected = Failed <=> \E q \in DOMAIN gsc_metrics : RefusedRow(gsc_metrics[q]))

\* one row at position 101.0 with 1000 impressions and 9 clicks: the call
\* failed
C29_FailedAbove100 ==
    /\ Len(gsc_metrics) = 1 /\ gsc_metrics[1].position10 = 1010
    /\ gsc_metrics[1].impressions = 1000 /\ gsc_metrics[1].clicks = 9
    /\ detected = Failed

(***************************************************************************)
(* Termination of the limiter's calls (SpecLimiterFair).                   *)
(***************************************************************************)
InCall(t) == tpc[t] # "idle"

====
